---- MODULE Spec2Model ----
(***************************************************************************)
(* A model of the GHB prefetcher of caesarchen000/ca_final:                *)
(*   - GHBHistory    (src/src/mem/cache/prefetch/ghb_history.cc): the ring *)
(*     of recent accesses, the two last-index maps and the two-delta       *)
(*     pattern table;                                                      *)
(*   - GHBPrefetcher (src/unnamed/part_000): calculatePrefetch, the        *)
(*     per-access pipeline that drives the helper.                         *)
(* Every operator is translated from the function of the same name.        *)
(* C++ vectors are 0-based; At(s, i) reads element i of a vector.          *)
(***************************************************************************)
EXTENDS Integers, Sequences, FiniteSets, TLC

VARIABLES
    cfg,              \* constructor parameters (immutable after construction)
    history,          \* GHBHistory::history, slot -> GHBEntry
    lastIndex,        \* GHBHistory::lastIndex, key -> (keyValue -> slot)
    head,             \* GHBHistory::head
    filled,           \* GHBHistory::filled
    sequenceCounter,  \* GHBHistory::sequenceCounter
    patternTable,     \* GHBHistory::patternTable, DeltaPair -> PatternEntry
    addresses,        \* the caller's vector<AddrPriority>
    last,             \* what the last operation was given and what it returned
    log,              \* the accesses inserted since construction or reset
    calls             \* number of calls made so far, resets not counted

vars == <<cfg, history, lastIndex, head, filled, sequenceCounter,
          patternTable, addresses, last, log, calls>>

helperVars == <<history, lastIndex, head, filled, sequenceCounter, patternTable>>

----------------------------------------------------------------------------
(* Bounds of the model *)

\* Slots of the ring in the specifications that exercise eviction.
RingSize == 3
\* Slots of the ring in the dispatcher specification.
HistorySize == 5
\* Calls of calculatePrefetch per behaviour.
MaxCalls == 5
\* Largest pattern_length in the specification that exercises eviction.
RingPatternLength == 2
\* Inserts per behaviour in that specification.
MaxInserts == 4
\* Pattern-table updates per behaviour.
MaxUpdates == 2
MaxThresholdParam == 101
\* Width of an address and of a delta (the program's is 64).
AddrBits == 16
\* Width of an unsigned counter or threshold (the program's is 32).
UnsignedBits == 16

----------------------------------------------------------------------------
(* Configuration of the end-to-end scenarios *)

PatternLength == 4
Degree == 4
PageBytes == 4096
ConfidenceThreshold == 50
BlockSize == 64

Keys == {"PC", "Page"}

Pow2(n) == 2 ^ n

AddrMod == Pow2(AddrBits)
UMod == Pow2(UnsignedBits)

\* static_cast<Addr>(x): wrap to the unsigned address type
ToAddr(x) == x % AddrMod
\* static_cast<int64_t>(a)
ToSigned(a) == IF a >= AddrMod \div 2 THEN a - AddrMod ELSE a
\* wrap a signed result to the delta type
WrapSigned(x) == ToSigned(x % AddrMod)
\* unsigned a - b
USub(a, b) == (a - b) % UMod

Abs(x) == IF x < 0 THEN -x ELSE x
Max(a, b) == IF a >= b THEN a ELSE b
Min(a, b) == IF a <= b THEN a ELSE b
At(s, i) == s[i + 1]
Reverse(s) == [i \in 1..Len(s) |-> s[Len(s) + 1 - i]]

----------------------------------------------------------------------------
(* Maps *)

EmptyMap == <<>>
Has(m, k) == k \in DOMAIN m
Put(m, k, v) == [x \in (DOMAIN m) \cup {k} |-> IF x = k THEN v ELSE m[x]]
Erase(m, k) == [x \in (DOMAIN m) \ {k} |-> m[x]]

----------------------------------------------------------------------------
(* GHBHistory: construction and reset *)

\* LinkInfo{}
LinkInfoDefault == [prev |-> -1, prevSeq |-> 0, keyValid |-> FALSE, keyValue |-> 0]

\* a value-initialised GHBEntry
EntryDefault == [addr |-> 0, seq |-> 0, links |-> [k \in Keys |-> LinkInfoDefault]]

\* The helper as one value.
Helper == [history |-> history, lastIndex |-> lastIndex, head |-> head,
           filled |-> filled, sequenceCounter |-> sequenceCounter,
           patternTable |-> patternTable]

\* GHBHistory::GHBHistory
Construct(c) ==
    [history |-> [s \in 0..(c.historySize - 1) |-> EntryDefault],
     lastIndex |-> [k \in Keys |-> EmptyMap],
     head |-> 0,
     filled |-> FALSE,
     sequenceCounter |-> 1,
     patternTable |-> EmptyMap]

\* a reset that clears the ring and the index maps and keeps the pattern table
resetKeepTable(H) ==
    [history |-> [s \in DOMAIN H.history |->
                    [addr |-> 0, seq |-> 0,
                     links |-> [k \in Keys |-> LinkInfoDefault]]],
     lastIndex |-> [k \in Keys |-> EmptyMap],
     head |-> 0,
     filled |-> FALSE,
     sequenceCounter |-> 1,
     patternTable |-> H.patternTable]

\* a reset that clears the ring and the pattern table and keeps the index maps
resetKeepIndex(H) ==
    [history |-> [s \in DOMAIN H.history |->
                    [addr |-> 0, seq |-> 0,
                     links |-> [k \in Keys |-> LinkInfoDefault]]],
     lastIndex |-> H.lastIndex,
     head |-> 0,
     filled |-> FALSE,
     sequenceCounter |-> 1,
     patternTable |-> EmptyMap]

\* GHBHistory::reset
reset(H) ==
    [history |-> [s \in DOMAIN H.history |->
                    [addr |-> 0, seq |-> 0,
                     links |-> [k \in Keys |-> LinkInfoDefault]]],
     lastIndex |-> [k \in Keys |-> EmptyMap],
     head |-> 0,
     filled |-> FALSE,
     sequenceCounter |-> 1,
     patternTable |-> EmptyMap]

----------------------------------------------------------------------------
(* GHBHistory: insert *)

computePage(addr) == addr \div cfg.pageBytes

\* GHBHistory::empty: the ring has no slots
empty(H) == DOMAIN H.history = {}

\* removeIndexMappings that invalidates the victim's links and leaves the
\* index maps as they are
removeIndexMappingsKeepIndex(H, slot) ==
    [H EXCEPT !.history[slot].links =
                  [k \in Keys |-> [H.history[slot].links[k]
                                       EXCEPT !.keyValid = FALSE]]]

\* removeIndexMappings that erases the victim from the PC index alone
removeIndexMappingsPCOnly(H, slot) ==
    LET victim == H.history[slot]
        v == victim.links["PC"].keyValue
    IN  [H EXCEPT
           !.lastIndex["PC"] =
               IF victim.links["PC"].keyValid /\ Has(H.lastIndex["PC"], v)
                  /\ H.lastIndex["PC"][v] = slot
               THEN Erase(H.lastIndex["PC"], v)
               ELSE H.lastIndex["PC"],
           !.history[slot].links = [k \in Keys |->
                            [victim.links[k] EXCEPT !.keyValid = FALSE]]]

\* removeIndexMappings that erases the victim's key values from the index maps
\* whatever slot their entries name
removeIndexMappingsAlways(H, slot) ==
    LET victim == H.history[slot]
    IN  [H EXCEPT
           !.lastIndex = [k \in Keys |->
                            IF victim.links[k].keyValid
                            THEN Erase(H.lastIndex[k], victim.links[k].keyValue)
                            ELSE H.lastIndex[k]],
           !.history[slot].links = [k \in Keys |->
                            [victim.links[k] EXCEPT !.keyValid = FALSE]]]

\* GHBHistory::removeIndexMappings (evictIndex forwards to it)
removeIndexMappings(H, slot) ==
    LET victim == H.history[slot]
        erased(k) ==
            LET v == victim.links[k].keyValue
            IN  IF Has(H.lastIndex[k], v) /\ H.lastIndex[k][v] = slot
                THEN Erase(H.lastIndex[k], v)
                ELSE H.lastIndex[k]
    IN  [H EXCEPT
           !.lastIndex = [k \in Keys |->
                            IF victim.links[k].keyValid THEN erased(k)
                            ELSE H.lastIndex[k]],
           !.history[slot].links = [k \in Keys |->
                            IF victim.links[k].keyValid
                            THEN [victim.links[k] EXCEPT !.keyValid = FALSE]
                            ELSE victim.links[k]]]

\* GHBHistory::assignCorrelation
assignCorrelation(H, slot, key, value) ==
    LET indexMap == H.lastIndex[key]
        found == Has(indexMap, value)
        link == [prev |-> IF found THEN indexMap[value] ELSE -1,
                 prevSeq |-> IF found THEN H.history[indexMap[value]].seq ELSE 0,
                 keyValid |-> TRUE,
                 keyValue |-> value]
    IN  [H EXCEPT !.history[slot].links[key] = link,
                  !.lastIndex[key] = Put(indexMap, value, slot)]

\* insert: entry.addr = access.addr; entry.seq = sequenceCounter++
writeEntry(H, slot, access) ==
    [H EXCEPT !.history[slot].addr = access.addr,
              !.history[slot].seq = H.sequenceCounter,
              !.sequenceCounter = H.sequenceCounter + 1]

\* insert that links the new entry by PC also when no PC was supplied
assignPCAlways(H, slot, access) ==
    assignCorrelation(H, slot, "PC", access.pc)

\* insert: the PC link of the new entry
assignPC(H, slot, access) ==
    IF cfg.usePC /\ access.hasPC
    THEN assignCorrelation(H, slot, "PC", access.pc)
    ELSE [H EXCEPT !.history[slot].links["PC"] = LinkInfoDefault]

\* insert: head = (head + 1) % historySize; if (head == 0) filled = true
advanceHead(H) ==
    [H EXCEPT !.head = (H.head + 1) % cfg.historySize,
              !.filled = H.filled \/ (H.head + 1) % cfg.historySize = 0]

\* GHBHistory::insert; access = [addr, hasPC, pc]: the helper afterwards and
\* the slot returned
insert(H, access) ==
    [H |-> advanceHead(
               assignCorrelation(
                   assignPC(writeEntry(IF H.filled
                                       THEN removeIndexMappings(H, H.head)
                                       ELSE H,
                                       H.head, access),
                            H.head, access),
                   H.head, "Page", computePage(access.addr))),
     slot |-> H.head]

----------------------------------------------------------------------------
(* GHBHistory: buildPattern *)

\* The loop of buildPattern without the comparison of seq with prevSeq.
RECURSIVE WalkNoSeqCheck(_, _, _, _)
WalkNoSeqCheck(h, current, key, steps) ==
    IF Len(steps) >= cfg.patternLength THEN steps
    ELSE LET link == h[current].links[key]
         IN  IF link.prev < 0 THEN steps
             ELSE WalkNoSeqCheck(h, link.prev, key,
                       Append(steps,
                              [cur |-> current, prev |-> link.prev,
                               seq |-> h[current].seq,
                               prevSeq |-> link.prevSeq,
                               delta |-> WrapSigned(ToSigned(h[current].addr)
                                                    - ToSigned(h[link.prev].addr))]))

\* The loop of buildPattern: the links it follows, newest first.
RECURSIVE Walk(_, _, _, _)
Walk(h, current, key, steps) ==
    IF Len(steps) >= cfg.patternLength THEN steps
    ELSE LET link == h[current].links[key]
         IN  IF link.prev < 0 THEN steps
             ELSE IF h[link.prev].seq # link.prevSeq THEN steps
             ELSE Walk(h, link.prev, key,
                       Append(steps,
                              [cur |-> current, prev |-> link.prev,
                               seq |-> h[current].seq,
                               prevSeq |-> link.prevSeq,
                               delta |-> WrapSigned(ToSigned(h[current].addr)
                                                    - ToSigned(h[link.prev].addr))]))

\* GHBHistory::buildPattern, as the links walked
buildSteps(H, index, key) ==
    IF index < 0 \/ index >= cfg.historySize THEN <<>>
    ELSE Walk(H.history, index, key, <<>>)

\* GHBHistory::buildPattern: the deltas (the result is true iff non-empty)
buildPattern(H, index, key) ==
    LET steps == buildSteps(H, index, key)
    IN  [i \in 1..Len(steps) |-> steps[i].delta]

----------------------------------------------------------------------------
(* Sorting and iteration order *)

\* std::sort of s, for an implementation that keeps equal elements in their
\* order. rank[i] is the place of s[i] under the comparator: the comparator
\* puts s[j] before s[i] iff rank[j] < rank[i].
StableSort(s, rank) ==
    LET n == Len(s)
        pos(i) == Cardinality({j \in 1..n : rank[j] < rank[i]
                                            \/ (rank[j] = rank[i] /\ j < i)}) + 1
    IN  [p \in 1..n |-> s[CHOOSE i \in 1..n : pos(i) = p]]

\* std::sort leaves the order of equal elements unspecified: ord selects one
\* of two outcomes, equal elements kept in order or reversed.
Sort(s, rank, ord) ==
    IF ord THEN StableSort(s, rank) ELSE StableSort(Reverse(s), Reverse(rank))

\* The elements of a set of integers in ascending order.
Ascending(S) ==
    LET n == Cardinality(S)
    IN  [p \in 1..n |-> CHOOSE x \in S : Cardinality({y \in S : y < x}) = p - 1]

\* Iteration over a counts map, as <<delta, count>> pairs. The container's
\* iteration order is not fixed by the source: ord selects ascending or
\* descending key order.
Items(counts, ord) ==
    LET keys == IF ord THEN Ascending(DOMAIN counts)
                ELSE Reverse(Ascending(DOMAIN counts))
    IN  [i \in 1..Len(keys) |-> [first |-> keys[i], second |-> counts[keys[i]]]]

Contains(s, x) == \E i \in 1..Len(s) : s[i] = x

----------------------------------------------------------------------------
(* GHBHistory: updatePatternTable *)

\* PatternEntry{}
PatternEntryDefault == [counts |-> EmptyMap, total |-> 0]

\* a training step that counts the successor and leaves total as it is
TrainNoTotal(pt, key, next) ==
    LET entry == IF Has(pt, key) THEN pt[key] ELSE PatternEntryDefault
        old == IF Has(entry.counts, next) THEN entry.counts[next] ELSE 0
    IN  Put(pt, key, [counts |-> Put(entry.counts, next, (old + 1) % UMod),
                      total |-> entry.total])

\* a training step that only creates the entry of a key it has not seen
TrainCreateOnly(pt, key, next) ==
    IF Has(pt, key)
    THEN Put(pt, key,
             [counts |-> Put(pt[key].counts, next,
                             ((IF Has(pt[key].counts, next)
                               THEN pt[key].counts[next] ELSE 0) + 1) % UMod),
              total |-> (pt[key].total + 1) % UMod])
    ELSE Put(pt, key, PatternEntryDefault)

\* a training step that saturates: an entry trained four times is left alone
TrainSaturating(pt, key, next) ==
    LET entry == IF Has(pt, key) THEN pt[key] ELSE PatternEntryDefault
        old == IF Has(entry.counts, next) THEN entry.counts[next] ELSE 0
    IN  IF entry.total >= 4 THEN pt
        ELSE Put(pt, key, [counts |-> Put(entry.counts, next, (old + 1) % UMod),
                           total |-> (entry.total + 1) % UMod])

\* auto &entry = patternTable[key]; entry.counts[next]++; entry.total++;
Train(pt, key, next) ==
    LET entry == IF Has(pt, key) THEN pt[key] ELSE PatternEntryDefault
        old == IF Has(entry.counts, next) THEN entry.counts[next] ELSE 0
    IN  Put(pt, key, [counts |-> Put(entry.counts, next, (old + 1) % UMod),
                      total |-> (entry.total + 1) % UMod])

Neg(x) == WrapSigned(-x)

\* One iteration of the loop of updatePatternTable: the <<key, next>> pairs it
\* trains, in program order.
TrainingsAt(c, i) ==
    LET n == Len(c)
        t(a, b, x) == << [key |-> <<a, b>>, next |-> x] >>
    IN  t(At(c, i), At(c, i + 1), At(c, i + 2))
        \o (IF i + 3 < n
            THEN t(At(c, i + 1), At(c, i + 2), At(c, i + 3))
                 \o (IF i + 4 < n
                     THEN t(At(c, i + 2), At(c, i + 3), At(c, i + 4))
                          \o (IF i + 5 < n
                              THEN t(At(c, i + 3), At(c, i + 4), At(c, i + 5))
                              ELSE <<>>)
                     ELSE <<>>)
            ELSE <<>>)
        \o (IF i + 3 < n /\ i > 0
            THEN t(At(c, i - 1), At(c, i), At(c, i + 2))
                 \o (IF i > 1 /\ i + 4 < n
                     THEN t(At(c, i - 2), At(c, i - 1), At(c, i + 2))
                     ELSE <<>>)
            ELSE <<>>)
        \o (IF i + 2 < n /\ i > 0
            THEN t(Neg(At(c, i)), Neg(At(c, i + 1)), Neg(At(c, i + 2)))
            ELSE <<>>)

RECURSIVE Trainings(_, _)
Trainings(c, i) ==
    IF i + 2 < Len(c) THEN TrainingsAt(c, i) \o Trainings(c, i + 1) ELSE <<>>

RECURSIVE TrainAll(_, _, _)
TrainAll(pt, ts, k) ==
    IF k > Len(ts) THEN pt
    ELSE TrainAll(Train(pt, ts[k].key, ts[k].next), ts, k + 1)

\* an update that rebuilds the table from the window alone
updatePatternTableFresh(pt, chronological) ==
    IF Len(chronological) < 3 THEN pt
    ELSE TrainAll(EmptyMap, Trainings(chronological, 0), 1)

\* GHBHistory::updatePatternTable
updatePatternTable(pt, chronological) ==
    IF Len(chronological) < 3 THEN pt
    ELSE TrainAll(pt, Trainings(chronological, 0), 1)

----------------------------------------------------------------------------
(* GHBHistory: findPatternMatch *)

\* pattern_keys: the last two deltas, then the pairs one and two earlier
patternKeys(c) ==
    LET n == Len(c)
    IN  << <<At(c, n - 2), At(c, n - 1)>> >>
        \o (IF n >= 3 THEN << <<At(c, n - 3), At(c, n - 2)>> >> ELSE <<>>)
        \o (IF n >= 4 THEN << <<At(c, n - 4), At(c, n - 3)>> >> ELSE <<>>)

\* adaptive_threshold of an entry with the given total (unsigned arithmetic)
adaptiveThreshold(total) ==
    LET ct == cfg.confidenceThreshold
    IN  IF total >= 50 THEN Max(12, USub(ct, 30))
        ELSE IF total >= 40 THEN Max(15, USub(ct, 25))
        ELSE IF total >= 30 THEN Max(18, USub(ct, 22))
        ELSE IF total >= 20 THEN Max(20, USub(ct, 18))
        ELSE IF total >= 12 THEN Max(22, USub(ct, 15))
        ELSE IF total >= 6 THEN Max(25, USub(ct, 10))
        ELSE IF total >= 3 THEN Max(30, USub(ct, 8))
        ELSE IF total >= 2 THEN Max(35, USub(ct, 5))
        ELSE ct

\* (count * 100) / total
Confidence(count, total) == ((count * 100) % UMod) \div total

\* entry_best_conf
entryBestConf(items, total) ==
    LET confs == {Confidence(items[k].second, total) : k \in 1..Len(items)}
    IN  IF confs = {} THEN 0 ELSE CHOOSE x \in confs : \A y \in confs : y <= x

\* a collection that pushes every candidate without merging equal deltas
MergeCandidateAppend(cands, delta, score) ==
    Append(cands, [first |-> delta, second |-> score])

\* merge a candidate into all_candidates: max score per delta
MergeCandidate(cands, delta, score) ==
    IF \E i \in 1..Len(cands) : cands[i].first = delta
    THEN LET i == CHOOSE j \in 1..Len(cands) :
                      /\ cands[j].first = delta
                      /\ \A l \in 1..(j - 1) : cands[l].first # delta
         IN  [cands EXCEPT ![i].second = Max(cands[i].second, score)]
    ELSE Append(cands, [first |-> delta, second |-> score])

\* the candidate loop over entry.counts
RECURSIVE CollectCounts(_, _, _, _, _, _)
CollectCounts(cands, items, k, total, thr, weight) ==
    IF k > Len(items) THEN cands
    ELSE LET count == items[k].second
             confidence == Confidence(count, total)
             boosted == confidence
                        + (IF count >= 5 THEN 8 ELSE IF count >= 3 THEN 3 ELSE 0)
             weighted_score == (boosted * weight) % UMod
         IN  CollectCounts(IF confidence >= thr
                           THEN MergeCandidate(cands, items[k].first, weighted_score)
                           ELSE cands,
                           items, k + 1, total, thr, weight)

\* The state of the loop over pattern_keys.
CollectInit ==
    [cands |-> <<>>, best_adaptive_threshold |-> cfg.confidenceThreshold,
     has_best |-> FALSE, best_confidence |-> 0, best_total |-> 0]

\* One iteration of the loop over pattern_keys (key_idx is 0-based).
CollectKey(st, pt, key, key_idx, ord) ==
    IF ~Has(pt, key) THEN st
    ELSE IF pt[key].total < 2 THEN st
    ELSE LET entry == pt[key]
             thr == adaptiveThreshold(entry.total)
             items == Items(entry.counts, ord)
             conf == entryBestConf(items, entry.total)
             better == key_idx = 0 /\ conf >= thr
                       /\ (~st.has_best \/ conf > st.best_confidence)
         IN  [cands |-> CollectCounts(st.cands, items, 1, entry.total, thr,
                                      IF key_idx = 0 THEN 5 ELSE 1),
              best_adaptive_threshold |->
                  IF thr < st.best_adaptive_threshold THEN thr
                  ELSE st.best_adaptive_threshold,
              has_best |-> st.has_best \/ better,
              best_confidence |-> IF better THEN conf ELSE st.best_confidence,
              best_total |-> IF better THEN entry.total ELSE st.best_total]

RECURSIVE CollectKeys(_, _, _, _, _)
CollectKeys(st, pt, keys, k, ord) ==
    IF k > Len(keys) THEN st
    ELSE CollectKeys(CollectKey(st, pt, keys[k], k - 1, ord), pt, keys, k + 1, ord)

\* effective_degree from best_entry
effectiveDegree(st) ==
    LET d == cfg.degree
        c == st.best_confidence
        t == st.best_total
    IN  IF ~st.has_best THEN d + 2
        ELSE IF c >= 90 /\ t >= 20 THEN d * 10
        ELSE IF c >= 85 /\ t >= 15 THEN d * 8
        ELSE IF c >= 80 /\ t >= 10 THEN d * 6
        ELSE IF c >= 70 /\ t >= 5 THEN d * 4
        ELSE IF c >= 60 /\ t >= 3 THEN d * 2
        ELSE IF c >= 50 /\ t >= 2 THEN d * 2
        ELSE IF c >= 40 THEN Min(d + 4, (d * 18) \div 10)
        ELSE IF c >= 30 THEN Min(d + 2, (d * 15) \div 10)
        ELSE d + 2

\* the comparator a.second > b.second, as ranks
ScoreGreater(cands) == [i \in 1..Len(cands) |-> -cands[i].second]

\* sort by score, then push up to effective_degree deltas
emitCandidates(cands, effective_degree, ord) ==
    LET sorted == Sort(cands, ScoreGreater(cands), ord)
    IN  [i \in 1..Min(Len(sorted), effective_degree) |-> sorted[i].first]

\* a backfill loop over entry.counts
RECURSIVE Backfill(_, _, _, _, _, _)
Backfill(predicted, items, k, total, thr, effective_degree) ==
    IF k > Len(items) \/ Len(predicted) >= effective_degree THEN predicted
    ELSE LET confidence == Confidence(items[k].second, total)
             push == confidence >= thr
                     /\ ~Contains(predicted, items[k].first)
                     /\ items[k].first # 0
         IN  Backfill(IF push THEN Append(predicted, items[k].first) ELSE predicted,
                      items, k + 1, total, thr, effective_degree)

\* lenient backfill from the primary entry
backfillPrimary(predicted, pt, keys, best_thr, effective_degree, ord) ==
    IF Has(pt, keys[1])
    THEN Backfill(predicted, Items(pt[keys[1]].counts, ord), 1, pt[keys[1]].total,
                  Max(25, USub(best_thr, 10)), effective_degree)
    ELSE predicted

\* lenient backfill from the secondary entries (k is the 1-based key position)
RECURSIVE backfillSecondary(_, _, _, _, _, _, _)
backfillSecondary(predicted, pt, keys, k, best_thr, effective_degree, ord) ==
    IF k > Len(keys) \/ Len(predicted) >= effective_degree THEN predicted
    ELSE IF Has(pt, keys[k]) /\ pt[keys[k]].total >= 3
    THEN backfillSecondary(
             Backfill(predicted, Items(pt[keys[k]].counts, ord), 1,
                      pt[keys[k]].total, Max(25, USub(best_thr, 5)),
                      effective_degree),
             pt, keys, k + 1, best_thr, effective_degree, ord)
    ELSE backfillSecondary(predicted, pt, keys, k + 1, best_thr,
                           effective_degree, ord)

\* the whole lenient backfill
lenientBackfill(predicted, pt, keys, best_thr, effective_degree, ord) ==
    IF Len(predicted) < effective_degree
    THEN LET p1 == backfillPrimary(predicted, pt, keys, best_thr,
                                   effective_degree, ord)
         IN  IF Len(p1) < effective_degree /\ Len(keys) > 1
             THEN backfillSecondary(p1, pt, keys, 2, best_thr, effective_degree, ord)
             ELSE p1
    ELSE predicted

\* chain_candidates: the counts meeting the threshold, with their confidence
RECURSIVE ChainCandidates(_, _, _, _)
ChainCandidates(items, k, total, thr) ==
    IF k > Len(items) THEN <<>>
    ELSE LET chain_conf == Confidence(items[k].second, total)
         IN  (IF chain_conf >= thr
              THEN << [first |-> items[k].first, second |-> chain_conf] >>
              ELSE <<>>)
             \o ChainCandidates(items, k + 1, total, thr)

\* the first chain candidate that is neither a duplicate nor zero, appended
addChained(predicted, sorted) ==
    LET ok == {i \in 1..Len(sorted) :
                   ~Contains(predicted, sorted[i].first) /\ sorted[i].first # 0}
    IN  IF ok = {} THEN predicted
        ELSE Append(predicted,
                    sorted[CHOOSE i \in ok : \A j \in ok : i <= j].first)

\* std::sort of chain_candidates by confidence
sortChain(cands, ord) == Sort(cands, ScoreGreater(cands), ord)

\* one iteration of the chaining loop: predicted afterwards, and whether the
\* iteration took one of the two breaks that leave the loop
chainStep(predicted, chain_attempt, pt, last_delta, best_thr, ord) ==
    LET n == Len(predicted)
        chain_base == IF chain_attempt = 0 THEN predicted[1] ELSE predicted[n]
        chain_prev == IF chain_attempt = 0 THEN last_delta
                      ELSE IF n > 1 THEN predicted[n - 1] ELSE last_delta
        chain_key == <<chain_prev, chain_base>>
        chain_threshold == IF chain_attempt = 0 THEN Max(best_thr, 25)
                           ELSE Max(USub(best_thr, 10), 20)
    IN  IF ~Has(pt, chain_key) THEN [stop |-> TRUE, predicted |-> predicted]
        ELSE IF pt[chain_key].total < 1 THEN [stop |-> TRUE, predicted |-> predicted]
        ELSE [stop |-> FALSE,
              predicted |->
                  addChained(predicted,
                             sortChain(ChainCandidates(
                                           Items(pt[chain_key].counts, ord), 1,
                                           pt[chain_key].total, chain_threshold),
                                       ord))]

\* the chaining loop, from attempt chain_attempt on
RECURSIVE Chain(_, _, _, _, _, _, _)

\* the loop after an iteration. An iteration after the first depends on
\* predicted alone, so one that adds nothing is repeated unchanged by every
\* later one, and the loop then ends with predicted as it is
chainNext(step, predicted, chain_attempt, pt, last_delta, best_thr, effective_degree, ord) ==
    IF step.stop \/ (chain_attempt >= 1 /\ step.predicted = predicted)
    THEN step.predicted
    ELSE Chain(step.predicted, chain_attempt + 1, pt, last_delta, best_thr,
               effective_degree, ord)

Chain(predicted, chain_attempt, pt, last_delta, best_thr, effective_degree, ord) ==
    IF chain_attempt >= effective_degree * 3
       \/ Len(predicted) >= effective_degree
    THEN predicted
    ELSE chainNext(chainStep(predicted, chain_attempt, pt, last_delta, best_thr,
                             ord),
                   predicted, chain_attempt, pt, last_delta, best_thr,
                   effective_degree, ord)

\* prediction chaining
chainPredictions(predicted, pt, c, best_thr, effective_degree, ord) ==
    IF predicted # <<>> /\ Len(predicted) < effective_degree /\ Len(c) >= 2
    THEN Chain(predicted, 0, pt, At(c, Len(c) - 1), best_thr, effective_degree, ord)
    ELSE predicted

\* is_duplicate of the amplification loops: equal or within 2
NearDuplicate(predicted, amplified) ==
    \E k \in 1..Len(predicted) :
        predicted[k] = amplified \/ Abs(predicted[k] - amplified) <= 2

\* the same loop with the bound i <= effective_degree
RECURSIVE AmplifyLoopOneMore(_, _, _, _, _)
AmplifyLoopOneMore(predicted, stride, i, amplify_count, effective_degree) ==
    IF ~(i < Len(predicted) + amplify_count /\ i <= effective_degree) THEN predicted
    ELSE LET amplified == WrapSigned(stride * (i + 1))
         IN  IF NearDuplicate(predicted, amplified) THEN predicted
             ELSE AmplifyLoopOneMore(Append(predicted, amplified), stride, i + 1,
                                     amplify_count, effective_degree)

\* the loop that appends stride * (i + 1), stopping at the first duplicate
RECURSIVE AmplifyLoop(_, _, _, _, _)
AmplifyLoop(predicted, stride, i, amplify_count, effective_degree) ==
    IF ~(i < Len(predicted) + amplify_count /\ i < effective_degree) THEN predicted
    ELSE LET amplified == WrapSigned(stride * (i + 1))
         IN  IF NearDuplicate(predicted, amplified) THEN predicted
             ELSE AmplifyLoop(Append(predicted, amplified), stride, i + 1,
                              amplify_count, effective_degree)

\* stride amplification from a prediction that matches the last delta
amplifyPrediction(predicted, last_delta, effective_degree) ==
    LET hits == {k \in 1..Len(predicted) :
                    /\ predicted[k] = last_delta \/ Abs(predicted[k] - last_delta) <= 2
                    /\ Abs(predicted[k]) > 0
                    /\ Abs(predicted[k]) < 300}
    IN  IF hits = {} THEN predicted
        ELSE LET stride == predicted[CHOOSE k \in hits : \A j \in hits : k <= j]
                 remaining == effective_degree - Len(predicted)
                 amplify_count ==
                     IF Abs(stride) < 128 THEN Min(remaining * 3, remaining)
                     ELSE IF Abs(stride) < 256 THEN Min(remaining * 2, remaining)
                     ELSE remaining
             IN  AmplifyLoop(predicted, stride, Len(predicted), amplify_count,
                             effective_degree)

\* how many of c[i], c[i-1], ... down to index lo are within 2 of the stride
RECURSIVE NearRun(_, _, _, _)
NearRun(c, i, lo, stride) ==
    IF i < 0 \/ i < lo THEN 0
    ELSE IF At(c, i) = stride \/ Abs(At(c, i) - stride) <= 2
    THEN 1 + NearRun(c, i - 1, lo, stride)
    ELSE 0

\* the loop that appends stride_candidate * (i + 1), skipping duplicates
RECURSIVE AmplifyHistoryLoop(_, _, _, _, _)
AmplifyHistoryLoop(predicted, stride, i, amplify_count, effective_degree) ==
    IF ~(i < amplify_count /\ Len(predicted) < effective_degree) THEN predicted
    ELSE LET amplified == WrapSigned(stride * (i + 1))
         IN  AmplifyHistoryLoop(IF NearDuplicate(predicted, amplified) THEN predicted
                                ELSE Append(predicted, amplified),
                                stride, i + 1, amplify_count, effective_degree)

\* stride amplification from a run at the tail of the chronological window
amplifyHistory(predicted, c, effective_degree) ==
    LET n == Len(c)
        stride_candidate == At(c, n - 1)
    IN  IF Len(predicted) < effective_degree /\ n >= 3
           /\ stride_candidate # 0 /\ Abs(stride_candidate) < 300
           /\ 1 + NearRun(c, n - 2, n - 6, stride_candidate) >= 2
        THEN AmplifyHistoryLoop(predicted, stride_candidate, 0,
                                effective_degree - Len(predicted), effective_degree)
        ELSE predicted

\* both amplification passes
strideAmplification(predicted, c, effective_degree) ==
    IF Len(predicted) < effective_degree /\ Len(c) >= 2
    THEN amplifyHistory(amplifyPrediction(predicted, At(c, Len(c) - 1),
                                          effective_degree),
                        c, effective_degree)
    ELSE predicted

NoMatch ==
    [found |-> FALSE, predicted |-> <<>>, effective_degree |-> 0,
     emitted |-> <<>>, backfilled |-> <<>>, chained |-> <<>>]

\* findPatternMatch from the chaining step on
matchChained(c, eff, emitted, backfilled, chained) ==
    [found |-> strideAmplification(chained, c, eff) # <<>>,
     predicted |-> strideAmplification(chained, c, eff),
     effective_degree |-> eff, emitted |-> emitted,
     backfilled |-> backfilled, chained |-> chained]

\* findPatternMatch from the lenient backfill on
matchBackfilled(pt, c, thr, eff, emitted, backfilled, ord) ==
    matchChained(c, eff, emitted, backfilled,
                 chainPredictions(backfilled, pt, c, thr, eff, ord))

\* findPatternMatch from the emit step on
matchEmitted(pt, c, keys, thr, eff, emitted, ord) ==
    matchBackfilled(pt, c, thr, eff, emitted,
                    lenientBackfill(emitted, pt, keys, thr, eff, ord), ord)

\* findPatternMatch once the candidates are collected
matchCollected(pt, c, keys, st, ord) ==
    IF st.cands = <<>> THEN NoMatch
    ELSE matchEmitted(pt, c, keys, st.best_adaptive_threshold,
                      effectiveDegree(st),
                      emitCandidates(st.cands, effectiveDegree(st), ord), ord)

\* GHBHistory::findPatternMatch: the return value, predicted, and predicted as
\* it was after the emit, backfill and chaining steps
findPatternMatch(pt, c, ord) ==
    IF Len(c) < 2 THEN NoMatch
    ELSE matchCollected(pt, c, patternKeys(c),
                        CollectKeys(CollectInit, pt, patternKeys(c), 1, ord), ord)

----------------------------------------------------------------------------
(* GHBHistory: fallbackPattern *)

\* a - b in size_t: wraps when b > a
SizeSub(a, b) == (a - b) % AddrMod

\* consecutive_count: the run of candidate_stride at the tail; the loop
\* condition i > chronological.size() - 8 is evaluated in size_t
RECURSIVE ConsecutiveCount(_, _, _)
ConsecutiveCount(c, i, candidate_stride) ==
    IF i > 0 /\ i > SizeSub(Len(c), 8)
    THEN IF At(c, i - 1) = candidate_stride
         THEN 1 + ConsecutiveCount(c, i - 1, candidate_stride)
         ELSE 0
    ELSE 0

\* prefetch_count of the stride branch
fallbackPrefetchCount(consecutive_count) ==
    LET d == cfg.degree
    IN  IF consecutive_count >= 8 THEN d * 6
        ELSE IF consecutive_count >= 6 THEN d * 5
        ELSE IF consecutive_count >= 4 THEN d * 4
        ELSE IF consecutive_count >= 2 THEN d * 2
        ELSE Min(d + 2, (d * 15) \div 10)

\* the backfill with recent deltas, newest first (i is the loop variable)
RECURSIVE FallbackFill(_, _, _)
FallbackFill(predicted, c, i) ==
    IF ~(i > 0 /\ Len(predicted) < cfg.degree) THEN predicted
    ELSE LET delta == At(c, i - 1)
         IN  FallbackFill(IF delta # 0 /\ ~Contains(predicted, delta)
                          THEN Append(predicted, delta) ELSE predicted,
                          c, i - 1)

\* freq_sorted: the non-zero deltas of the lookback window, best score first
fallbackRanking(c) ==
    LET n == Len(c)
        lookback == Min(n, cfg.patternLength)
        window == (n - lookback + 1)..n
        deltas == {c[i] : i \in window} \ {0}
        freq(d) == Cardinality({i \in window : c[i] = d})
        recencies(d) == {n - i + 1 : i \in {j \in window : c[j] = d}}
        recency(d) == CHOOSE r \in recencies(d) : \A q \in recencies(d) : q <= r
        score(d) == freq(d) * 3 + recency(d) * 2
        Before(a, b) ==
            IF score(a) # score(b) THEN score(a) > score(b)
            ELSE IF a > 0 /\ b <= 0 THEN TRUE
            ELSE IF a <= 0 /\ b > 0 THEN FALSE
            ELSE Abs(a) < Abs(b)
        ranked == Ascending(deltas)
    IN  StableSort(ranked,
                   [i \in 1..Len(ranked) |->
                       Cardinality({b \in deltas : Before(b, ranked[i])})])

\* fallbackPattern once the deltas are ranked
fallbackRanked(c, freq_sorted) ==
    LET candidate_stride == freq_sorted[1]
        consecutive_count ==
            IF freq_sorted # <<>>
            THEN ConsecutiveCount(c, Len(c), candidate_stride) ELSE 0
    IN  IF freq_sorted # <<>> /\ consecutive_count >= 1
           /\ Abs(candidate_stride) < 300
        THEN [i \in 1..fallbackPrefetchCount(consecutive_count) |->
                  WrapSigned(candidate_stride * i)]
        ELSE FallbackFill(SubSeq(freq_sorted, 1,
                                 Min(Len(freq_sorted), cfg.degree)),
                          c, Len(c))

\* GHBHistory::fallbackPattern: predicted
fallbackPattern(c) ==
    IF c = <<>> THEN <<>> ELSE fallbackRanked(c, fallbackRanking(c))

----------------------------------------------------------------------------
(* GHBPrefetcher: calculatePrefetch *)

\* Base::blockAddress
blockAddress(a) == a - (a % cfg.blockSize)

\* Base::samePage
samePage(a, b) == (a \div cfg.pageBytes) = (b \div cfg.pageBytes)

\* a stride detection whose second test emits up to three predictions
strideDetectionThree(c) ==
    LET n == Len(c)
        last_delta == At(c, n - 1)
        prev_delta == At(c, n - 2)
        prev_prev_delta == At(c, n - 3)
    IN  IF n < 3 THEN [found |-> FALSE, predicted |-> <<>>, path |-> "none"]
        ELSE IF last_delta = prev_delta /\ last_delta # 0 /\ Abs(last_delta) < 100
        THEN [found |-> TRUE,
              predicted |-> [i \in 1..cfg.degree |-> WrapSigned(last_delta * i)],
              path |-> "stride"]
        ELSE IF last_delta = prev_prev_delta /\ last_delta # 0
                /\ Abs(last_delta) < 100
        THEN [found |-> TRUE,
              predicted |-> [i \in 1..Min(cfg.degree, 3) |->
                                 WrapSigned(last_delta * i)],
              path |-> "alternating"]
        ELSE [found |-> FALSE, predicted |-> <<>>, path |-> "none"]

\* a stride detection whose first test emits at most three predictions
strideDetectionShort(c) ==
    LET n == Len(c)
        last_delta == At(c, n - 1)
        prev_delta == At(c, n - 2)
        prev_prev_delta == At(c, n - 3)
    IN  IF n < 3 THEN [found |-> FALSE, predicted |-> <<>>, path |-> "none"]
        ELSE IF last_delta = prev_delta /\ last_delta # 0 /\ Abs(last_delta) < 100
        THEN [found |-> TRUE,
              predicted |-> [i \in 1..Min(cfg.degree, 3) |->
                                 WrapSigned(last_delta * i)],
              path |-> "stride"]
        ELSE IF last_delta = prev_prev_delta /\ last_delta # 0
                /\ Abs(last_delta) < 100
        THEN [found |-> TRUE,
              predicted |-> [i \in 1..Min(cfg.degree, 2) |->
                                 WrapSigned(last_delta * i)],
              path |-> "alternating"]
        ELSE [found |-> FALSE, predicted |-> <<>>, path |-> "none"]

\* a stride detection that predicts half-strides: stride * i / 2
strideDetectionHalved(c) ==
    LET n == Len(c)
        last_delta == At(c, n - 1)
        prev_delta == At(c, n - 2)
        prev_prev_delta == At(c, n - 3)
    IN  IF n < 3 THEN [found |-> FALSE, predicted |-> <<>>, path |-> "none"]
        ELSE IF last_delta = prev_delta /\ last_delta # 0 /\ Abs(last_delta) < 100
        THEN [found |-> TRUE,
              predicted |-> [i \in 1..cfg.degree |->
                                 WrapSigned((last_delta * i) \div 2)],
              path |-> "stride"]
        ELSE IF last_delta = prev_prev_delta /\ last_delta # 0
                /\ Abs(last_delta) < 100
        THEN [found |-> TRUE,
              predicted |-> [i \in 1..Min(cfg.degree, 2) |->
                                 WrapSigned((last_delta * i) \div 2)],
              path |-> "alternating"]
        ELSE [found |-> FALSE, predicted |-> <<>>, path |-> "none"]

\* the quick stride detection on the chronological window
strideDetection(c) ==
    LET n == Len(c)
        last_delta == At(c, n - 1)
        prev_delta == At(c, n - 2)
        prev_prev_delta == At(c, n - 3)
    IN  IF n < 3 THEN [found |-> FALSE, predicted |-> <<>>, path |-> "none"]
        ELSE IF last_delta = prev_delta /\ last_delta # 0 /\ Abs(last_delta) < 100
        THEN [found |-> TRUE,
              predicted |-> [i \in 1..cfg.degree |-> WrapSigned(last_delta * i)],
              path |-> "stride"]
        ELSE IF last_delta = prev_prev_delta /\ last_delta # 0
                /\ Abs(last_delta) < 100
        THEN [found |-> TRUE,
              predicted |-> [i \in 1..Min(cfg.degree, 2) |->
                                 WrapSigned(last_delta * i)],
              path |-> "alternating"]
        ELSE [found |-> FALSE, predicted |-> <<>>, path |-> "none"]

\* a dispatcher that leaves predicted in the order the predictors produced
keepPredicted(predicted, ord) == predicted

\* the comparator std::abs(a) < std::abs(b), as ranks
AbsLess(predicted) == [i \in 1..Len(predicted) |-> Abs(predicted[i])]

\* the sort of predicted before materialization
sortPredicted(predicted, ord) == Sort(predicted, AbsLess(predicted), ord)

\* is_sequential
isSequential(predicted) ==
    /\ Len(predicted) >= 2
    /\ predicted[1] # 0
    /\ Abs(predicted[1]) < 100
    /\ \A i \in 1..(Len(predicted) - 1) :
           i < 3 => At(predicted, i) = WrapSigned(predicted[1] * (i + 1))

\* a page boundary check that skips nothing
pageSkipNever(block_addr, next_addr, delta) == FALSE

\* a page test that skips every address off the page of block_addr
pageSkipOffPage(block_addr, next_addr, delta) == ~samePage(block_addr, next_addr)

\* the page boundary check: TRUE when the address is skipped
pageSkip(block_addr, next_addr, delta) ==
    /\ ~samePage(block_addr, next_addr)
    /\ Abs(delta) > cfg.pageBytes \div 2

\* a materialization loop that does not skip a delta of 0
RECURSIVE MaterializeZero(_, _, _, _, _)
MaterializeZero(predicted, i, block_addr, current_base, is_sequential) ==
    IF i >= Len(predicted) THEN <<>>
    ELSE LET delta == At(predicted, i)
             cumulative == is_sequential /\ i > 0
             next_addr == IF cumulative
                          THEN ToAddr(ToSigned(current_base) + delta)
                          ELSE ToAddr(ToSigned(block_addr) + delta)
             base == IF cumulative THEN next_addr ELSE current_base
         IN  (IF pageSkip(block_addr, next_addr, delta) THEN <<>>
              ELSE << [addr |-> next_addr, priority |-> 0,
                       delta |-> delta, i |-> i] >>)
             \o MaterializeZero(predicted, i + 1, block_addr, base, is_sequential)

\* the materialization loop from index i on (0-based): the pairs appended,
\* each with the delta and index it came from
RECURSIVE Materialize(_, _, _, _, _)
Materialize(predicted, i, block_addr, current_base, is_sequential) ==
    IF i >= Len(predicted) THEN <<>>
    ELSE LET delta == At(predicted, i)
             cumulative == is_sequential /\ i > 0
             next_addr == IF cumulative
                          THEN ToAddr(ToSigned(current_base) + delta)
                          ELSE ToAddr(ToSigned(block_addr) + delta)
             base == IF cumulative THEN next_addr ELSE current_base
         IN  IF delta = 0
             THEN Materialize(predicted, i + 1, block_addr, current_base,
                              is_sequential)
             ELSE (IF pageSkip(block_addr, next_addr, delta) THEN <<>>
                   ELSE << [addr |-> next_addr, priority |-> 0,
                            delta |-> delta, i |-> i] >>)
                  \o Materialize(predicted, i + 1, block_addr, base, is_sequential)

\* what a call that returns before predicting reports
NoCall ==
    [slot |-> -1, block_addr |-> 0, pc_deltas |-> <<>>, page_deltas |-> <<>>,
     chronological |-> <<>>, trained |-> <<>>, path |-> "none",
     predicted |-> <<>>, sorted |-> <<>>, is_sequential |-> FALSE,
     emitted |-> <<>>]

\* calculatePrefetch from the sort on: the locals of the call
cpMaterialize(here, pt, block_addr, chronological, trained, path, predicted, sorted) ==
    [pt |-> pt,
     obs |-> [here EXCEPT
                !.chronological = chronological,
                !.trained = trained,
                !.path = IF predicted = <<>> THEN "none" ELSE path,
                !.predicted = predicted,
                !.sorted = IF predicted = <<>> THEN <<>> ELSE sorted,
                !.is_sequential = predicted # <<>> /\ isSequential(sorted),
                !.emitted = IF predicted = <<>> THEN <<>>
                            ELSE Materialize(sorted, 0, block_addr, block_addr,
                                             isSequential(sorted))]]

\* calculatePrefetch from the fallback on; m is predicted before it
cpFallback(here, pt, block_addr, chronological, trained, path, m, ord) ==
    IF m = <<>>
    THEN cpMaterialize(here, pt, block_addr, chronological, trained, "fallback",
                       fallbackPattern(chronological),
                       sortPredicted(fallbackPattern(chronological), ord))
    ELSE cpMaterialize(here, pt, block_addr, chronological, trained, path, m,
                       sortPredicted(m, ord))

\* the retry with the page pattern: trains it, then matches it
cpPageRetry(here, pt, block_addr, chronological, page_chronological, ord) ==
    cpFallback(here, pt, block_addr, chronological,
               <<chronological, page_chronological>>, "page",
               findPatternMatch(pt, page_chronological, ord).predicted, ord)

\* calculatePrefetch once stride detection and the first findPatternMatch are
\* done; m is predicted and foundMatch is m # <<>>
cpMatched(here, pt, block_addr, chronological, path, m, ord) ==
    IF m = <<>> /\ here.page_deltas # <<>>
       /\ (here.pc_deltas = <<>> \/ here.page_deltas # here.pc_deltas)
    THEN cpPageRetry(here,
                     updatePatternTable(pt, Reverse(here.page_deltas)),
                     block_addr, chronological, Reverse(here.page_deltas), ord)
    ELSE cpFallback(here, pt, block_addr, chronological, <<chronological>>,
                    path, m, ord)

\* calculatePrefetch once the pattern table is updated with chronological
cpTrained(here, pt, block_addr, chronological, early, ord) ==
    IF early.found
    THEN cpMatched(here, pt, block_addr, chronological, early.path,
                   early.predicted, ord)
    ELSE cpMatched(here, pt, block_addr, chronological, "match",
                   findPatternMatch(pt, chronological, ord).predicted, ord)

\* calculatePrefetch once both chains are built
cpChains(H, here, block_addr, deltas, ord) ==
    IF deltas = <<>> THEN [pt |-> H.patternTable, obs |-> here]
    ELSE cpTrained(here, updatePatternTable(H.patternTable, Reverse(deltas)),
                   block_addr, Reverse(deltas),
                   strideDetection(Reverse(deltas)), ord)

\* calculatePrefetch that prefers the page chain to the PC chain
cpInsertedPageFirst(H, idx, block_addr, pc_deltas, page_deltas, ord) ==
    cpChains(H,
             [NoCall EXCEPT !.slot = idx, !.block_addr = block_addr,
                            !.pc_deltas = pc_deltas,
                            !.page_deltas = page_deltas],
             block_addr,
             IF page_deltas # <<>> THEN page_deltas ELSE pc_deltas, ord)

\* calculatePrefetch once the access is inserted
cpInserted(H, idx, block_addr, pc_deltas, page_deltas, ord) ==
    cpChains(H,
             [NoCall EXCEPT !.slot = idx, !.block_addr = block_addr,
                            !.pc_deltas = pc_deltas,
                            !.page_deltas = page_deltas],
             block_addr,
             IF pc_deltas # <<>> THEN pc_deltas ELSE page_deltas, ord)

\* calculatePrefetch after insert returned ins
cpInsert(ins, block_addr, ord) ==
    [H |-> ins.H,
     r |-> cpInserted(ins.H, ins.slot, block_addr,
                      buildPattern(ins.H, ins.slot, "PC"),
                      buildPattern(ins.H, ins.slot, "Page"), ord)]

\* the helper after the call and the locals of the call
cpResult(x) == [H |-> [x.H EXCEPT !.patternTable = x.r.pt], obs |-> x.r.obs]

\* GHBPrefetcher::calculatePrefetch on helper H: the helper afterwards and the
\* locals of the call; obs.emitted holds the pairs appended to addresses
calculatePrefetch(H, byte_addr, hasPC, pc, ord) ==
    IF empty(H) THEN [H |-> H, obs |-> NoCall]
    ELSE cpResult(cpInsert(insert(H, [addr |-> blockAddress(byte_addr),
                                      hasPC |-> cfg.usePC /\ hasPC,
                                      pc |-> pc]),
                           blockAddress(byte_addr), ord))

----------------------------------------------------------------------------
(* State machine *)

\* the constructor parameters of the end-to-end scenarios, with a ring of hs,
\* and the byte addresses the scenario will access (none: any stream)
ScenarioCfg(hs) ==
    [historySize |-> hs, patternLength |-> PatternLength, degree |-> Degree,
     usePC |-> TRUE, pageBytes |-> PageBytes,
     confidenceThreshold |-> ConfidenceThreshold, blockSize |-> BlockSize,
     stream |-> <<>>]

\* what is recorded of the last operation: its name, its arguments and
\* results, and for a reset (and the first call after it) the helper as it
\* was before the reset
NoObs ==
    [op |-> "construct", call |-> NoCall, before |-> <<>>, prior |-> <<>>,
     slot |-> -1,
     index |-> -1, key |-> "PC", steps |-> <<>>, window |-> <<>>,
     match |-> NoMatch, predicted |-> <<>>, total |-> 0, threshold |-> 0]

SetHelper(H) ==
    /\ history' = H.history
    /\ lastIndex' = H.lastIndex
    /\ head' = H.head
    /\ filled' = H.filled
    /\ sequenceCounter' = H.sequenceCounter
    /\ patternTable' = H.patternTable

\* the state after construction with parameters c
InitWith(c) ==
    /\ cfg = c
    /\ history = Construct(c).history
    /\ lastIndex = Construct(c).lastIndex
    /\ head = Construct(c).head
    /\ filled = Construct(c).filled
    /\ sequenceCounter = Construct(c).sequenceCounter
    /\ patternTable = Construct(c).patternTable
    /\ addresses = <<>>
    /\ last = NoObs
    /\ log = <<>>
    /\ calls = 0

\* buildPattern, findPatternMatch and fallbackPattern are const: they leave the
\* helper as it is, so one of them is observed after each change of the helper
Observed == last.op \in {"buildPattern", "findPatternMatch", "fallbackPattern"}

\* GHBHistory::reset
Reset ==
    /\ log # <<>>
    /\ SetHelper(reset(Helper))
    /\ last' = [NoObs EXCEPT !.op = "reset", !.prior = Helper]
    /\ log' = <<>>
    /\ UNCHANGED <<cfg, addresses, calls>>

(* The dispatcher: a stream of accesses, each a step away from the previous *)

\* byte addresses of the first access of a stream
Starts == {0, 4000}
\* the moves from one access to the next: <<step in bytes, access carries a PC>>
Moves == {<<64, TRUE>>, <<-64, TRUE>>, <<128, TRUE>>, <<4096, TRUE>>,
          <<64, FALSE>>}
\* the PC of the stream
StreamPC == {4096}
\* what the caller's vector holds before a call
PreLists == {<<>>, << [addr |-> 1, priority |-> 7] >>}

\* the accesses the stream can make next: <<byte address, hasPC>>
NextAccesses ==
    IF cfg.stream # <<>> THEN {<<cfg.stream[calls + 1], TRUE>>}
    ELSE IF log = <<>> THEN Starts \X {TRUE}
    ELSE {<<ToAddr(log[Len(log)].byte + m[1]), m[2]>> : m \in Moves}

\* the number of calls a behaviour makes
CallLimit == IF cfg.stream # <<>> THEN Len(cfg.stream) ELSE MaxCalls

\* pairs whose priority is the position of the prediction they come from
PairsByRank(emitted) ==
    [i \in 1..Len(emitted) |->
        [addr |-> emitted[i].addr, priority |-> emitted[i].i]]

\* the pairs that addresses.emplace_back(next_addr, 0) appends
Pairs(emitted) ==
    [i \in 1..Len(emitted) |->
        [addr |-> emitted[i].addr, priority |-> emitted[i].priority]]

\* GHBPrefetcher::calculatePrefetch
CalculatePrefetch ==
    /\ calls < CallLimit
    /\ \E a \in NextAccesses, pc \in StreamPC, ord \in BOOLEAN :
         \E r \in {calculatePrefetch(Helper, a[1], a[2], pc, ord)} :
             /\ SetHelper(r.H)
             /\ log' = Append(log, [byte |-> a[1], addr |-> r.obs.block_addr,
                                    hasPC |-> cfg.usePC /\ a[2],
                                    pc |-> IF cfg.usePC /\ a[2] THEN pc ELSE 0])
             /\ \E pre \in PreLists :
                  /\ addresses' = pre \o Pairs(r.obs.emitted)
                  /\ last' = [NoObs EXCEPT !.op = "calculatePrefetch",
                                           !.call = r.obs, !.before = pre,
                                           !.prior = IF last.op = "reset"
                                                     THEN last.prior ELSE <<>>,
                                           !.slot = r.obs.slot]
    /\ calls' = calls + 1
    /\ UNCHANGED cfg

Init == InitWith(ScenarioCfg(HistorySize))

Next == CalculatePrefetch \/ Reset

Spec == Init /\ [][Next]_vars

(* The dispatcher, fed the accesses of a scenario *)

\* descending by one block to 3840 and to the page boundary 4096
DescendingStream == <<4096, 4032, 3968, 3904, 3840>>
DescendingAcrossPage == <<4352, 4288, 4224, 4160, 4096>>
\* deltas +64, -64, ... from 8192, and +128, -128, ...
AlternatingStream == <<8192, 8256, 8192, 8256, 8192, 8256, 8192>>
AlternatingWide == <<8192, 8320, 8192, 8320, 8192>>
\* deltas 64, 128, 64
RepeatAfterTwo == <<0, 64, 192, 256>>
\* byte deltas +8, +8, +8, +1024, +8, +8, +8, +1024
GapStream == <<0, 8, 16, 24, 1048, 1056, 1064, 1072, 2096>>
\* block deltas 1, 2, 8, 1, 2, -8, 2, 3, 8, 2, 3, -8, 1, 2, 3, -5 within one
\* page: the pairs (1, 2) and (2, 3) are followed by three different deltas
ReturningStream ==
    <<4096, 4160, 4288, 4800, 4864, 4992, 4480, 4608, 4800,
      5312, 5440, 5632, 5120, 5184, 5312, 5504, 5184>>

Streams == {DescendingStream, DescendingAcrossPage, AlternatingStream,
            AlternatingWide, RepeatAfterTwo, GapStream, ReturningStream}

InitScenario ==
    \E s \in Streams : InitWith([ScenarioCfg(HistorySize) EXCEPT !.stream = s])

SpecScenario == InitScenario /\ [][Next]_vars

(* The helper's ring, driven directly *)

RingCfg(pl) == [ScenarioCfg(RingSize) EXCEPT !.patternLength = pl]

RingAccesses ==
    {[addr |-> a[1], hasPC |-> a[2], pc |-> IF a[2] THEN 4096 ELSE 0] :
        a \in {<<0, TRUE>>, <<64, TRUE>>, <<4096, TRUE>>, <<64, FALSE>>,
               <<8192, TRUE>>, <<12288, TRUE>>}}

\* GHBHistory::insert
Insert ==
    /\ calls < MaxInserts
    /\ \E access \in RingAccesses :
         \E r \in {insert(Helper, access)} :
             /\ SetHelper(r.H)
             /\ last' = [NoObs EXCEPT !.op = "insert", !.slot = r.slot]
             /\ log' = Append(log, [byte |-> access.addr, addr |-> access.addr,
                                    hasPC |-> cfg.usePC /\ access.hasPC,
                                    pc |-> IF cfg.usePC /\ access.hasPC
                                           THEN access.pc ELSE 0])
    /\ calls' = calls + 1
    /\ UNCHANGED <<cfg, addresses>>

\* GHBHistory::buildPattern
BuildPattern ==
    /\ ~Observed
    /\ \E index \in 0..(cfg.historySize - 1), key \in Keys :
         last' = [NoObs EXCEPT !.op = "buildPattern", !.index = index,
                               !.key = key,
                               !.steps = buildSteps(Helper, index, key),
                               !.predicted = buildPattern(Helper, index, key)]
    /\ UNCHANGED <<cfg, helperVars, addresses, log, calls>>

InitRing == \E pl \in 1..RingPatternLength : InitWith(RingCfg(pl))

NextRing == Insert \/ BuildPattern \/ Reset

SpecRing == InitRing /\ [][NextRing]_vars

(* The helper's pattern table, driven directly *)

\* the chronological windows the table is trained on
UpdateWindows ==
    {<<0, 0, 0>>, <<0, 0, 0, 0>>, <<64, 64, 64, 64>>, <<64, 128, 64, 128>>,
     <<-64, -64, -64>>, <<64, 64, 128, 64, 64, 128>>}

\* the chronological windows the table is matched against
FindWindows ==
    UpdateWindows \cup {<<>>, <<64>>, <<0, 0>>, <<64, 64>>, <<128, 64>>,
                        <<-64, -64>>, <<64, 128>>,
                        <<64, 64, 64, 64, 64, 64, 64, 64>>}

\* GHBHistory::updatePatternTable
UpdatePatternTable ==
    /\ calls < MaxUpdates
    /\ \E w \in UpdateWindows :
         /\ patternTable' = updatePatternTable(patternTable, w)
         /\ last' = [NoObs EXCEPT !.op = "updatePatternTable", !.window = w]
         /\ log' = Append(log, [byte |-> 0, addr |-> 0, hasPC |-> FALSE, pc |-> 0])
    /\ calls' = calls + 1
    /\ UNCHANGED <<cfg, history, lastIndex, head, filled, sequenceCounter, addresses>>

\* GHBHistory::findPatternMatch
FindPatternMatch ==
    /\ ~Observed
    /\ \E w \in FindWindows, ord \in BOOLEAN :
         \E m \in {findPatternMatch(patternTable, w, ord)} :
             last' = [NoObs EXCEPT !.op = "findPatternMatch", !.window = w,
                                   !.match = m, !.predicted = m.predicted]
    /\ UNCHANGED <<cfg, helperVars, addresses, log, calls>>

\* GHBHistory::fallbackPattern
FallbackPattern ==
    /\ ~Observed
    /\ \E w \in FindWindows :
         last' = [NoObs EXCEPT !.op = "fallbackPattern", !.window = w,
                               !.predicted = fallbackPattern(w)]
    /\ UNCHANGED <<cfg, helperVars, addresses, log, calls>>

InitTable == InitWith(ScenarioCfg(HistorySize))

NextTable == UpdatePatternTable \/ FindPatternMatch \/ FallbackPattern \/ Reset

SpecTable == InitTable /\ [][NextTable]_vars

(* The adaptive threshold of findPatternMatch, for every configuration *)

\* the helper's parameters when constructed with confidence_threshold p
ThresholdCfg(p) ==
    [ScenarioCfg(HistorySize) EXCEPT !.confidenceThreshold = Min(100, p)]

\* the totals of the entries looked at: both sides of every row boundary
Totals == {2, 3, 5, 6, 11, 12, 19, 20, 29, 30, 39, 40, 49, 50, 60}

\* findPatternMatch: the adaptive_threshold computed for an entry
AdaptiveThreshold ==
    /\ \E total \in Totals :
         last' = [NoObs EXCEPT !.op = "adaptiveThreshold", !.total = total,
                               !.threshold = adaptiveThreshold(total)]
    /\ UNCHANGED <<cfg, helperVars, addresses, log, calls>>

InitThreshold == \E p \in 0..MaxThresholdParam : InitWith(ThresholdCfg(p))

NextThreshold == AdaptiveThreshold

SpecThreshold == InitThreshold /\ [][NextThreshold]_vars

----------------------------------------------------------------------------
(* Properties of the history ring *)

\* C1: after any sequence of insert calls, for each correlation key k every
\* entry lastIndex[k][v] = s refers to a slot s of the ring whose link for k
\* has keyValid = true and keyValue = v.
LastIndexPointsToKey ==
    \A k \in Keys :
        \A v \in DOMAIN lastIndex[k] :
            /\ lastIndex[k][v] \in DOMAIN history
            /\ history[lastIndex[k][v]].links[k].keyValid
            /\ history[lastIndex[k][v]].links[k].keyValue = v

\* The ring has wrapped, an insert without a PC has just overwritten a slot,
\* the eviction has removed a page from the index and a PC is still indexed.
LastIndexAfterEviction ==
    /\ last.op = "insert"
    /\ filled
    /\ ~log[Len(log)].hasPC
    /\ lastIndex["PC"] # EmptyMap
    /\ \E i \in 1..Len(log) : ~Has(lastIndex["Page"], computePage(log[i].addr))

\* the link that follows the last one walked (the first one, if none was)
NextLink(steps, index, key) ==
    history[IF steps = <<>> THEN index ELSE steps[Len(steps)].prev].links[key]

\* C2: for any reachable history, any slot index and either key, buildPattern
\* returns at most patternLength deltas; the links it walks form a chain from
\* index; every delta is the difference between the entry and a predecessor
\* slot link.prev whose current seq equals the link's prevSeq, so it is the
\* difference of the two accesses recorded with those sequence numbers; and a
\* walk shorter than patternLength stopped at a link with prev < 0 or at a
\* seq mismatch.
BuildPatternFollowsLiveLinks ==
    last.op = "buildPattern" =>
        /\ Len(last.steps) <= cfg.patternLength
        /\ Len(last.predicted) = Len(last.steps)
        /\ \A i \in 1..Len(last.steps) :
             LET st == last.steps[i]
             IN  /\ st.cur = IF i = 1 THEN last.index ELSE last.steps[i - 1].prev
                 /\ st.prev = history[st.cur].links[last.key].prev
                 /\ st.prevSeq = history[st.cur].links[last.key].prevSeq
                 /\ st.prev \in DOMAIN history
                 /\ history[st.prev].seq = st.prevSeq
                 /\ st.seq \in 1..Len(log)
                 /\ st.prevSeq \in 1..(st.seq - 1)
                 /\ last.predicted[i] =
                        WrapSigned(log[st.seq].addr - log[st.prevSeq].addr)
        /\ Len(last.steps) < cfg.patternLength =>
             \/ NextLink(last.steps, last.index, last.key).prev < 0
             \/ history[NextLink(last.steps, last.index, last.key).prev].seq
                    # NextLink(last.steps, last.index, last.key).prevSeq

\* A walk that took one link and was cut short at a link whose predecessor
\* slot has been overwritten since the link was recorded.
BuildPatternStopsAtOverwrittenSlot ==
    /\ last.op = "buildPattern"
    /\ Len(last.steps) = 1
    /\ Len(last.steps) < cfg.patternLength
    /\ NextLink(last.steps, last.index, last.key).prev >= 0
    /\ history[NextLink(last.steps, last.index, last.key).prev].seq
           # NextLink(last.steps, last.index, last.key).prevSeq

----------------------------------------------------------------------------
(* Properties of the dispatcher *)

\* the addresses the last call appended, in order
EmittedAddrs == [i \in 1..Len(last.call.emitted) |-> last.call.emitted[i].addr]

\* the accesses since construction or reset are to consecutive blocks from
\* byte address 0, all with the PC of the stream
ConsecutiveBlocks ==
    /\ log # <<>>
    /\ \A i \in 1..Len(log) : log[i].byte = BlockSize * (i - 1) /\ log[i].hasPC

\* C3: from a fresh or reset prefetcher (degree 4, pattern_length 4, use_pc,
\* 64-byte blocks, 4096-byte pages) fed accesses to consecutive blocks with one
\* PC, from the 5th access on every calculatePrefetch call emits at least degree
\* addresses and the i-th is block_addr + i * 64 for i = 1..degree; the call for
\* byte address 192 emits 384 and 448, and the call for 320 emits 384, 448, 512
\* and 576.
SequentialRunEmitsConsecutiveBlocks ==
    (last.op = "calculatePrefetch" /\ ConsecutiveBlocks) =>
        /\ Len(log) >= 5 =>
             /\ Len(EmittedAddrs) >= cfg.degree
             /\ \A i \in 1..cfg.degree :
                    EmittedAddrs[i] = ToAddr(last.call.block_addr + i * BlockSize)
        /\ Len(log) = 4 =>
             {384, 448} \subseteq {EmittedAddrs[i] : i \in DOMAIN EmittedAddrs}
        /\ Len(log) = 6 =>
             {384, 448, 512, 576}
                 \subseteq {EmittedAddrs[i] : i \in DOMAIN EmittedAddrs}

\* C4: calculatePrefetch never appends an address on a different page from
\* block_addr unless the delta that produced it is at most half a page in
\* absolute value (|delta| <= pageBytes / 2).
CrossPageOnlyWithinHalfPage ==
    last.op = "calculatePrefetch" =>
        \A i \in 1..Len(last.call.emitted) :
            ~samePage(last.call.block_addr, last.call.emitted[i].addr)
                => Abs(last.call.emitted[i].delta) <= cfg.pageBytes \div 2

\* A call that appended an address on the next page, produced by delta 64 from
\* predictions that are not sequential.
CrossPageAddressAppended ==
    /\ last.op = "calculatePrefetch"
    /\ ~last.call.is_sequential
    /\ \E i \in 1..Len(last.call.emitted) :
         /\ ~samePage(last.call.block_addr, last.call.emitted[i].addr)
         /\ last.call.emitted[i].delta = 64

\* C4 as the specification states it: an address on a different page from
\* block_addr is appended only if the predictions were sequential with
\* |base_stride| < 64, or |delta| < 32, or -128 < delta < 0.
CrossPageOnlyByStatedPolicy ==
    last.op = "calculatePrefetch" =>
        \A i \in 1..Len(last.call.emitted) :
            ~samePage(last.call.block_addr, last.call.emitted[i].addr)
                => \/ last.call.is_sequential /\ Abs(last.call.sorted[1]) < 64
                   \/ Abs(last.call.emitted[i].delta) < 32
                   \/ /\ -128 < last.call.emitted[i].delta
                      /\ last.call.emitted[i].delta < 0

\* C6: within one calculatePrefetch call the addresses are appended in
\* ascending order of the absolute value of the deltas they come from.
AppendedInAscendingAbsDelta ==
    last.op = "calculatePrefetch" =>
        \A i, j \in 1..Len(last.call.emitted) :
            i < j => Abs(last.call.emitted[i].delta)
                         <= Abs(last.call.emitted[j].delta)

\* A call that appended the address of a negative delta before that of a
\* positive delta of larger absolute value.
NegativeDeltaAppendedFirst ==
    /\ last.op = "calculatePrefetch"
    /\ \E i, j \in 1..Len(last.call.emitted) :
         /\ i < j
         /\ last.call.emitted[i].delta < 0
         /\ last.call.emitted[j].delta > 0
         /\ Abs(last.call.emitted[i].delta) < Abs(last.call.emitted[j].delta)

\* C6 as the specification states it: every positive delta precedes every
\* non-positive delta, and within each sign group the deltas are in ascending
\* absolute value.
AppendedPositiveFirst ==
    last.op = "calculatePrefetch" =>
        \A i, j \in 1..Len(last.call.emitted) :
            i < j =>
                LET a == last.call.emitted[i].delta
                    b == last.call.emitted[j].delta
                IN  /\ ~(a <= 0 /\ b > 0)
                    /\ (a > 0) = (b > 0) => Abs(a) <= Abs(b)

----------------------------------------------------------------------------
(* Properties of the pattern table *)

\* C5: every delta that findPatternMatch places in predicted is non-zero, for
\* any reachable pattern table and any chronological window, zero deltas
\* included.
PredictedDeltasNonZero ==
    last.op = "findPatternMatch" =>
        \A i \in 1..Len(last.predicted) : last.predicted[i] # 0

\* the sum of the values of a counts map
RECURSIVE SumCounts(_)
SumCounts(counts) ==
    IF DOMAIN counts = {} THEN 0
    ELSE LET d == CHOOSE x \in DOMAIN counts : TRUE
         IN  counts[d] + SumCounts(Erase(counts, d))

\* C7: after any sequence of operations every PatternEntry in the pattern
\* table has total equal to the sum of all values in its counts map.
TotalIsSumOfCounts ==
    \A key \in DOMAIN patternTable :
        patternTable[key].total = SumCounts(patternTable[key].counts)

\* The table holds an entry trained several times with two different
\* successors, and a prediction has just been made from the table.
EntryWithTwoSuccessors ==
    /\ last.op = "findPatternMatch"
    /\ last.match.found
    /\ \E key \in DOMAIN patternTable :
         /\ Cardinality(DOMAIN patternTable[key].counts) >= 2
         /\ patternTable[key].total >= 3

\* C8: the pattern table never contains an entry with total = 0, so every
\* confidence computation count * 100 / total in findPatternMatch divides by a
\* non-zero total.
NoEntryWithZeroTotal ==
    \A key \in DOMAIN patternTable : patternTable[key].total # 0

\* A call whose predictions came from findPatternMatch, made from a table with
\* an entry that has two successors.
MatchFromTrainedTable ==
    /\ last.op = "calculatePrefetch"
    /\ last.call.path \in {"match", "page"}
    /\ last.call.predicted # <<>>
    /\ \E key \in DOMAIN patternTable :
         Cardinality(DOMAIN patternTable[key].counts) >= 2

----------------------------------------------------------------------------
(* Properties of reset *)

\* C9: after any sequence of inserts and pattern-table updates, reset leaves
\* the helper equal to a freshly constructed instance with the same
\* parameters (head = 0, filled = false, sequenceCounter = 1, both lastIndex
\* maps empty, pattern table empty, every slot without a valid link), and the
\* next access produces exactly what it produces on a fresh instance.
ResetEqualsFresh ==
    last.op = "reset" =>
        /\ Helper = Construct(cfg)
        /\ head = 0 /\ ~filled /\ sequenceCounter = 1
        /\ \A k \in Keys : lastIndex[k] = EmptyMap
        /\ patternTable = EmptyMap
        /\ \A s \in DOMAIN history : \A k \in Keys : ~history[s].links[k].keyValid
        /\ \A a \in Starts, ord \in BOOLEAN :
               calculatePrefetch(Helper, a, TRUE, 4096, ord)
                   = calculatePrefetch(Construct(cfg), a, TRUE, 4096, ord)

\* A reset of a helper whose ring had wrapped, whose index maps were in use
\* and whose pattern table had entries.
ResetOfTrainedHelper ==
    /\ last.op = "reset"
    /\ last.prior.filled
    /\ last.prior.lastIndex["PC"] # EmptyMap
    /\ last.prior.patternTable # EmptyMap

\* C10: the first calculatePrefetch call after construction or after reset,
\* whatever was learned before the reset, appends no address and leaves the
\* pattern table empty.
FirstCallAppendsNothing ==
    (last.op = "calculatePrefetch" /\ Len(log) = 1) =>
        /\ last.call.emitted = <<>>
        /\ addresses = last.before
        /\ patternTable = EmptyMap

\* The first call after a reset of a helper that had learned patterns and had
\* made predictions, with a caller's vector that already holds an address.
FirstCallAfterLearning ==
    /\ last.op = "calculatePrefetch"
    /\ Len(log) = 1
    /\ last.prior # <<>>
    /\ last.prior.patternTable # EmptyMap
    /\ last.before # <<>>

----------------------------------------------------------------------------
(* Properties of findPatternMatch *)

\* C11: no two deltas in the output of findPatternMatch are equal, for any
\* reachable pattern table and chronological window.
PredictedDeltasDistinct ==
    last.op = "findPatternMatch" =>
        \A i, j \in 1..Len(last.predicted) :
            i # j => last.predicted[i] # last.predicted[j]

\* A match for a window whose three pattern keys are one and the same trained
\* key, so that its successor is a candidate three times over, and whose
\* output was extended by amplification to three deltas or more.
RepeatedCandidateAmplified ==
    /\ last.op = "findPatternMatch"
    /\ last.match.found
    /\ Len(last.window) >= 4
    /\ Cardinality({patternKeys(last.window)[k] : k \in 1..3}) = 1
    /\ Has(patternTable, patternKeys(last.window)[1])
    /\ Len(last.predicted) >= 3
    /\ Len(last.match.chained) < Len(last.predicted)

\* C12: findPatternMatch places at most effective_degree deltas in predicted,
\* where effective_degree is the value chosen from the best primary entry
\* (degree + 2 when there is none); so the output never has more than
\* 10 * degree deltas, after emit, backfill, chaining and both amplification
\* passes.
PredictedWithinEffectiveDegree ==
    (last.op = "findPatternMatch" /\ last.match.found) =>
        /\ Len(last.match.emitted) <= last.match.effective_degree
        /\ Len(last.match.backfilled) <= last.match.effective_degree
        /\ Len(last.match.chained) <= last.match.effective_degree
        /\ Len(last.predicted) <= last.match.effective_degree
        /\ last.match.effective_degree <= 10 * cfg.degree
        /\ Len(last.predicted) <= 10 * cfg.degree
        /\ (~Has(patternTable, patternKeys(last.window)[1])
               => last.match.effective_degree = cfg.degree + 2)

\* A match whose effective degree was raised above the baseline by the primary
\* entry and whose output the amplification filled up to exactly that many
\* deltas.
PredictedFilledToEffectiveDegree ==
    /\ last.op = "findPatternMatch"
    /\ last.match.found
    /\ last.match.effective_degree > cfg.degree + 2
    /\ Len(last.match.chained) < last.match.effective_degree
    /\ Len(last.predicted) = last.match.effective_degree

----------------------------------------------------------------------------
(* Properties of updatePatternTable *)

\* the count of a successor and the total of a key, 0 where the table has none
CountOf(pt, key, delta) ==
    IF Has(pt, key) /\ Has(pt[key].counts, delta) THEN pt[key].counts[delta] ELSE 0

TotalOf(pt, key) == IF Has(pt, key) THEN pt[key].total ELSE 0

\* table after differs from table before by `times` times what the update
\* adds to the empty table (once), in every count and every total, and has no
\* other key or successor
AddsTimes(before, after, once, times) ==
    /\ DOMAIN after = DOMAIN before \cup DOMAIN once
    /\ \A key \in DOMAIN after :
         /\ TotalOf(after, key) = TotalOf(before, key) + times * TotalOf(once, key)
         /\ DOMAIN after[key].counts
                = (IF Has(before, key) THEN DOMAIN before[key].counts ELSE {})
                  \cup (IF Has(once, key) THEN DOMAIN once[key].counts ELSE {})
         /\ \A delta \in DOMAIN after[key].counts :
                CountOf(after, key, delta)
                    = CountOf(before, key, delta) + times * CountOf(once, key, delta)

\* C13: for any chronological window W the increments that
\* updatePatternTable(W) applies do not depend on the prior contents of the
\* table: from any table, applying it twice adds to every count and every
\* total exactly twice what applying it once adds, which is what it adds to
\* an empty table.
UpdateIncrementsIndependentOfTable ==
    \A w \in UpdateWindows :
        /\ AddsTimes(patternTable, updatePatternTable(patternTable, w),
                     updatePatternTable(EmptyMap, w), 1)
        /\ AddsTimes(patternTable,
                     updatePatternTable(updatePatternTable(patternTable, w), w),
                     updatePatternTable(EmptyMap, w), 2)
        /\ AddsTimes(EmptyMap,
                     updatePatternTable(updatePatternTable(EmptyMap, w), w),
                     updatePatternTable(EmptyMap, w), 2)

\* The table is the result of two updates with two different windows that
\* train a common key, so that a further update meets counts it did not make.
TableTrainedByTwoWindows ==
    /\ last.op = "updatePatternTable"
    /\ calls = 2
    /\ patternTable # updatePatternTable(updatePatternTable(EmptyMap, last.window),
                                        last.window)
    /\ \E key \in DOMAIN updatePatternTable(EmptyMap, last.window) :
         TotalOf(patternTable, key)
             > TotalOf(updatePatternTable(EmptyMap, last.window), key)

----------------------------------------------------------------------------
(* Properties of the caller's list *)

\* C14: calculatePrefetch only appends to the caller's addresses list: the
\* elements present before the call are unchanged and keep their positions,
\* every pair appended has priority 0, and when no prediction is produced the
\* list is left exactly as it was.
OnlyAppendsWithPriorityZero ==
    last.op = "calculatePrefetch" =>
        /\ Len(addresses) = Len(last.before) + Len(last.call.emitted)
        /\ \A i \in 1..Len(last.before) : addresses[i] = last.before[i]
        /\ \A i \in 1..Len(last.call.emitted) :
             /\ addresses[Len(last.before) + i].addr = last.call.emitted[i].addr
             /\ addresses[Len(last.before) + i].priority = 0
        /\ last.call.predicted = <<>> => addresses = last.before

\* A call made with a list that already held a pair of another priority, which
\* appended two addresses or more behind it.
AppendedBehindExistingPair ==
    /\ last.op = "calculatePrefetch"
    /\ last.before # <<>>
    /\ last.before[1].priority # 0
    /\ Len(last.call.emitted) >= 2
    /\ Len(addresses) = Len(last.before) + Len(last.call.emitted)

----------------------------------------------------------------------------
(* Properties of the index maps *)

\* the pages of the accesses inserted since construction or reset
PagesSeen == {computePage(log[i].addr) : i \in 1..Len(log)}

\* C15: after any sequence of inserts each of the two lastIndex maps (PC and
\* Page) holds at most historySize entries, even when the accesses use more
\* than historySize distinct key values over time.
LastIndexWithinHistorySize ==
    \A k \in Keys : Cardinality(DOMAIN lastIndex[k]) <= cfg.historySize

\* The inserts have used more pages than the ring has slots, and the Page
\* index holds one page for every slot.
MorePagesThanSlots ==
    /\ last.op = "insert"
    /\ filled
    /\ Cardinality(PagesSeen) > cfg.historySize
    /\ Cardinality(DOMAIN lastIndex["Page"]) = cfg.historySize

\* every key, count and total of table before is in table after, not smaller
TableGrows(before, after) ==
    \A key \in DOMAIN before :
        /\ Has(after, key)
        /\ after[key].total >= before[key].total
        /\ \A delta \in DOMAIN before[key].counts :
               CountOf(after, key, delta) >= before[key].counts[delta]

\* C16: between two resets the pattern table only grows: across any sequence
\* of calculatePrefetch calls no key is ever removed and no count or total
\* ever decreases; a call whose windows are too short to train (its insert,
\* buildPattern, findPatternMatch and fallbackPattern steps alone) leaves the
\* table unchanged; only reset empties it.
PatternTableOnlyGrows ==
    [][IF last'.op = "reset" THEN patternTable' = EmptyMap
       ELSE /\ TableGrows(patternTable, patternTable')
            /\ (\A t \in 1..Len(last'.call.trained) :
                   Len(last'.call.trained[t]) < 3) => patternTable' = patternTable]_vars

\* The last call trained a table that earlier calls had trained: an entry has
\* been counted four times or more.
TableTrainedAcrossCalls ==
    /\ last.op = "calculatePrefetch"
    /\ \E t \in 1..Len(last.call.trained) : Len(last.call.trained[t]) >= 3
    /\ \E key \in DOMAIN patternTable :
         patternTable[key].total >= 4

----------------------------------------------------------------------------
(* Properties of the early stride detection *)

\* the last n accesses all carried the PC and each is one block below the
\* one before it
DescendingRun(n) ==
    /\ Len(log) >= n
    /\ \A i \in (Len(log) - n + 1)..Len(log) : log[i].hasPC
    /\ \A i \in (Len(log) - n + 2)..Len(log) :
           log[i].addr = ToAddr(log[i - 1].addr - BlockSize)

\* the set of addresses the last call appended
EmittedSet == {last.call.emitted[i].addr : i \in 1..Len(last.call.emitted)}

\* C17: for accesses with one PC that descend by a constant stride of one
\* 64-byte block, the call for the 5th access emits at least block_addr - 64
\* and block_addr - 128 (3776 and 3712 after 4096, 4032, 3968, 3904, 3840),
\* also when they lie on a different page from block_addr.
DescendingRunEmitsBackward ==
    (last.op = "calculatePrefetch" /\ DescendingRun(5)) =>
        /\ ToAddr(last.call.block_addr - 64) \in EmittedSet
        /\ ToAddr(last.call.block_addr - 128) \in EmittedSet
        /\ last.call.block_addr = 3840 => {3776, 3712} \subseteq EmittedSet

\* The 5th access of a descending run is the first block of its page, and
\* the call appended the two blocks below it, on the page before.
BackwardAcrossPageEmitted ==
    /\ last.op = "calculatePrefetch"
    /\ DescendingRun(5)
    /\ last.call.block_addr = 4096
    /\ {4032, 3968} \subseteq EmittedSet
    /\ ~samePage(last.call.block_addr, 4032)

\* the bytes accessed since construction or reset
LogBytes == [i \in 1..Len(log) |-> log[i].byte]

\* C18, as the code has it: the second early detector fires when the
\* chronological window has at least 3 deltas with chronological[-1] =
\* chronological[-3], chronological[-1] non-zero and |chronological[-1]| < 100
\* (and the simple-stride detector did not fire), and it then predicts exactly
\* chronological[-1] * i for i = 1..min(degree, 2); for the deltas +64, -64,
\* +64, -64, +64, -64 from base 8192 it fires and yields at most 3
\* predictions, all multiples of the last delta.
AlternatingDetector ==
    last.op = "calculatePrefetch" =>
        LET c == last.call.chronological
            n == Len(c)
        IN  /\ (/\ n >= 3
                /\ c[n] = c[n - 2]
                /\ c[n] # 0
                /\ Abs(c[n]) < 100
                /\ last.call.path # "stride")
               => /\ last.call.path = "alternating"
                  /\ last.call.predicted
                         = [i \in 1..Min(cfg.degree, 2) |-> c[n] * i]
            /\ LogBytes = AlternatingStream
               => /\ last.call.path = "alternating"
                  /\ Len(last.call.predicted) <= 3
                  /\ \A i \in 1..Len(last.call.predicted) :
                         \E m \in 1..3 : last.call.predicted[i] = c[n] * m

\* The call for the last access of +64, -64, +64, -64, +64, -64 from 8192:
\* the detector fired on the window +64, -64, +64, -64 and predicted -64 and
\* -128.
AlternatingFiredAtBase8192 ==
    /\ last.op = "calculatePrefetch"
    /\ LogBytes = AlternatingStream
    /\ last.call.chronological = <<64, -64, 64, -64>>
    /\ last.call.path = "alternating"
    /\ last.call.predicted = <<-64, -128>>

\* C18 as the specification states it: the detector fires when the window
\* has at least 4 deltas with chronological[-1] = chronological[-3],
\* chronological[-2] = chronological[-4] and |chronological[-1]| < 200 (and
\* the simple-stride detector did not fire), and then predicts exactly
\* chronological[-1] * i for i = 1..min(degree, 3).
AlternatingDetectorAsStated ==
    last.op = "calculatePrefetch" =>
        LET c == last.call.chronological
            n == Len(c)
        IN  (/\ n >= 4
             /\ c[n] = c[n - 2]
             /\ c[n - 1] = c[n - 3]
             /\ Abs(c[n]) < 200
             /\ last.call.path # "stride")
            => /\ last.call.path = "alternating"
               /\ last.call.predicted
                      = [i \in 1..Min(cfg.degree, 3) |-> c[n] * i]

----------------------------------------------------------------------------
(* Properties of the strided-with-gap scenario *)

\* C19, as the code has it: with degree 4, pattern_length 4 and one PC, after
\* accesses from byte address 0 of a new prefetcher whose successive deltas
\* are +8, +8, +8, +1024, +8, +8, +8, +1024, the call for the access that
\* completes the second +1024 gap appends one address, block_addr + 1024, on
\* the current page, and none of block_addr + 8 * i for i = 1..degree.
GapStreamEmitsGapStride ==
    (last.op = "calculatePrefetch" /\ LogBytes = GapStream) =>
        /\ Len(last.call.emitted) = 1
        /\ EmittedSet = {last.call.block_addr + 1024}
        /\ samePage(last.call.block_addr, last.call.block_addr + 1024)
        /\ \A i \in 1..cfg.degree :
               ToAddr(last.call.block_addr + 8 * i) \notin EmittedSet

\* The call for the 9th access of the stream, at block 2048: the window of
\* block deltas is 0, 0, 0, 1024 and the address appended is 3072.
GapStreamCompleted ==
    /\ last.op = "calculatePrefetch"
    /\ LogBytes = GapStream
    /\ last.call.block_addr = 2048
    /\ last.call.chronological = <<0, 0, 0, 1024>>
    /\ EmittedSet = {3072}

\* C19 as the specification states it: that call emits block_addr + 8 * i for
\* i = 1..degree, all on the current page.
GapStreamEmitsSmallStride ==
    (last.op = "calculatePrefetch" /\ LogBytes = GapStream) =>
        \A i \in 1..cfg.degree :
            /\ ToAddr(last.call.block_addr + 8 * i) \in EmittedSet
            /\ samePage(last.call.block_addr, last.call.block_addr + 8 * i)

----------------------------------------------------------------------------
(* Properties of the adaptive threshold *)

\* the row of the threshold table for an entry with the given total
ThresholdRow(total) ==
    IF total >= 50 THEN [subtract |-> 30, floor |-> 12]
    ELSE IF total >= 40 THEN [subtract |-> 25, floor |-> 15]
    ELSE IF total >= 30 THEN [subtract |-> 22, floor |-> 18]
    ELSE IF total >= 20 THEN [subtract |-> 18, floor |-> 20]
    ELSE IF total >= 12 THEN [subtract |-> 15, floor |-> 22]
    ELSE IF total >= 6 THEN [subtract |-> 10, floor |-> 25]
    ELSE IF total >= 3 THEN [subtract |-> 8, floor |-> 30]
    ELSE [subtract |-> 5, floor |-> 35]

\* C20: for every confidenceThreshold in 0..100 and every pattern entry with
\* total >= 2, the adaptive threshold used by findPatternMatch equals
\* max(floor, confidenceThreshold - subtract) for the row of that total, the
\* subtraction done without wrap-around; so it lies between the row's floor
\* and max(floor, confidenceThreshold) and never exceeds 100, also when
\* confidenceThreshold is smaller than the amount subtracted
\* (confidenceThreshold = 20 and total >= 50 give 12).
AdaptiveThresholdFloored ==
    (last.op = "adaptiveThreshold" /\ last.total >= 2) =>
        LET row == ThresholdRow(last.total)
            ct == cfg.confidenceThreshold
        IN  /\ ct \in 0..100
            /\ last.threshold = Max(row.floor, ct - row.subtract)
            /\ row.floor <= last.threshold
            /\ last.threshold <= Max(row.floor, ct)
            /\ last.threshold <= 100
            /\ (ct = 20 /\ last.total >= 50) => last.threshold = 12

----------------------------------------------------------------------------
(* Properties of fallbackPattern *)

\* the length of the run of d at the tail of c, scanning back at most 8
\* positions
RECURSIVE TailRun(_, _, _)
TailRun(c, d, scanned) ==
    IF scanned >= 8 \/ scanned >= Len(c) \/ c[Len(c) - scanned] # d THEN 0
    ELSE 1 + TailRun(c, d, scanned + 1)

\* the number of predictions the stride branch makes for a run of length r
StrideBranchCount(r) ==
    IF r >= 8 THEN 6 * cfg.degree
    ELSE IF r >= 6 THEN 5 * cfg.degree
    ELSE IF r >= 4 THEN 4 * cfg.degree
    ELSE IF r >= 2 THEN 2 * cfg.degree
    ELSE Min(cfg.degree + 2, (15 * cfg.degree) \div 10)

\* C21: for any non-empty chronological window of any length n >= 1 (n < 8
\* included), if the top-ranked delta d of fallbackPattern equals the last
\* element of the window and |d| < 300, fallbackPattern outputs exactly
\* d * 1, d * 2, ..., d * k, where k depends on the length r of the run of d
\* at the tail (scanning back at most 8 positions): r >= 8 gives 6 * degree,
\* r >= 6 gives 5 * degree, r >= 4 gives 4 * degree, r >= 2 gives 2 * degree,
\* otherwise min(degree + 2, floor(1.5 * degree)).
FallbackStrideBranch ==
    (/\ last.op = "fallbackPattern"
     /\ last.window # <<>>
     /\ fallbackRanking(last.window) # <<>>
     /\ fallbackRanking(last.window)[1] = last.window[Len(last.window)]
     /\ Abs(last.window[Len(last.window)]) < 300)
    => last.predicted
           = [i \in 1..StrideBranchCount(TailRun(last.window,
                                                  last.window[Len(last.window)], 0))
                 |-> last.window[Len(last.window)] * i]

----------------------------------------------------------------------------
(* Properties of the simple-stride detection *)

\* prefetch_count as the specification has it, for a run of stride_count
\* equal deltas at the tail
StatedPrefetchCount(stride_count) ==
    IF stride_count >= 6 THEN Min(2 * cfg.degree, stride_count)
    ELSE IF stride_count >= 4 THEN Min(cfg.degree + 2, stride_count)
    ELSE IF stride_count >= 3 THEN Min(cfg.degree + 1, stride_count)
    ELSE cfg.degree

\* C22, as the code has it: the simple-stride early detector fires whenever
\* the chronological window has at least 3 deltas and the last two are equal,
\* non-zero and of magnitude below 100, and it then predicts stride * i for
\* i = 1..degree; when it fires, findPatternMatch and fallbackPattern are not
\* used for that access (predicted is what the detector produced).
SimpleStrideDetector ==
    last.op = "calculatePrefetch" =>
        LET c == last.call.chronological
            n == Len(c)
        IN  (/\ n >= 3
             /\ c[n] = c[n - 1]
             /\ c[n] # 0
             /\ Abs(c[n]) < 100)
            => /\ last.call.path = "stride"
               /\ last.call.predicted = [i \in 1..cfg.degree |-> c[n] * i]

\* The detector fired on a run of three equal deltas that follows a different
\* delta, with a pattern table that already had entries to match against.
SimpleStrideFiredOnRunOfThree ==
    /\ last.op = "calculatePrefetch"
    /\ last.call.path = "stride"
    /\ Len(last.call.chronological) = 4
    /\ last.call.chronological[1] # last.call.chronological[2]
    /\ last.call.chronological[2] = last.call.chronological[4]
    /\ Len(last.call.predicted) = cfg.degree
    /\ patternTable # EmptyMap

\* C22 as the specification states it: the detector fires whenever the last
\* two deltas are equal, non-zero and of magnitude below 200, and predicts
\* stride * i for i = 1..prefetch_count, prefetch_count chosen from the
\* length of the run at the tail.
SimpleStrideDetectorAsStated ==
    last.op = "calculatePrefetch" =>
        LET c == last.call.chronological
            n == Len(c)
        IN  (/\ n >= 2
             /\ c[n] = c[n - 1]
             /\ c[n] # 0
             /\ Abs(c[n]) < 200)
            => /\ last.call.path = "stride"
               /\ last.call.predicted
                      = [i \in 1..StatedPrefetchCount(TailRun(c, c[n], 0))
                            |-> c[n] * i]

----------------------------------------------------------------------------
(* Properties of insert *)

\* the key value that the access gives key k, as a set: empty when the access
\* assigns none
AssignedValue(access, k) ==
    IF k = "Page" THEN {computePage(access.addr)}
    ELSE IF access.hasPC THEN {access.pc} ELSE {}

\* C23: an insert that writes slot s (the head before the call) returns s,
\* leaves history[s].seq = sequenceCounter - 1 and lastIndex[k][keyValue] = s
\* for every key assigned to the access; when it evicts a previous occupant it
\* erases that occupant's lastIndex entry only if the entry still pointed to
\* s: an entry for the same key value that points to a newer slot is
\* preserved, and no lastIndex entry for any other key value is changed.
InsertWritesHeadAndOwnEntries ==
    [][last'.op = "insert" =>
         /\ last'.slot = head
         /\ history'[head].seq = sequenceCounter' - 1
         /\ history'[head].addr = log'[Len(log')].addr
         /\ \A k \in Keys :
              /\ \A v \in AssignedValue(log'[Len(log')], k) :
                     /\ Has(lastIndex'[k], v)
                     /\ lastIndex'[k][v] = head
              /\ DOMAIN lastIndex'[k]
                     \subseteq DOMAIN lastIndex[k]
                               \cup AssignedValue(log'[Len(log')], k)
              /\ \A v \in DOMAIN lastIndex[k] \ AssignedValue(log'[Len(log')], k) :
                     IF /\ filled
                        /\ history[head].links[k].keyValid
                        /\ history[head].links[k].keyValue = v
                        /\ lastIndex[k][v] = head
                     THEN ~Has(lastIndex'[k], v)
                     ELSE /\ Has(lastIndex'[k], v)
                          /\ lastIndex'[k][v] = lastIndex[k][v]]_vars

\* The insert overwrote an access whose page a newer slot had taken over in
\* the Page index: the entry of that page is still there, naming the newer
\* slot.
EvictionPreservedNewerEntry ==
    /\ last.op = "insert"
    /\ Len(log) > cfg.historySize
    /\ computePage(log[Len(log) - cfg.historySize].addr)
           # computePage(log[Len(log)].addr)
    /\ Has(lastIndex["Page"], computePage(log[Len(log) - cfg.historySize].addr))
    /\ lastIndex["Page"][computePage(log[Len(log) - cfg.historySize].addr)]
           # last.slot

----------------------------------------------------------------------------
(* Properties of the chain selection in calculatePrefetch *)

\* C24: in each calculatePrefetch call the working delta chain is the PC-keyed
\* chain whenever it is non-empty and the page-keyed chain otherwise; when both
\* chains are empty the call returns having inserted the access into the
\* history but appended no address and changed nothing in the pattern table.
WorkingChainIsPCThenPage ==
    [][last'.op = "calculatePrefetch" =>
         /\ last'.call.slot = head
         /\ history'[head].addr = last'.call.block_addr
         /\ history'[head].seq = sequenceCounter
         /\ last'.call.chronological =
                Reverse(IF buildPattern(Helper', head, "PC") # <<>>
                        THEN buildPattern(Helper', head, "PC")
                        ELSE buildPattern(Helper', head, "Page"))
         /\ (/\ buildPattern(Helper', head, "PC") = <<>>
             /\ buildPattern(Helper', head, "Page") = <<>>)
               => /\ addresses' = last'.before
                  /\ last'.call.emitted = <<>>
                  /\ patternTable' = patternTable]_vars

\* A call whose two chains are both empty, made by a prefetcher that has
\* learned patterns from earlier accesses and whose caller passed a vector
\* that already holds an address.
BothChainsEmptyAfterLearning ==
    /\ last.op = "calculatePrefetch"
    /\ Len(log) > 1
    /\ buildPattern(Helper, last.slot, "PC") = <<>>
    /\ buildPattern(Helper, last.slot, "Page") = <<>>
    /\ patternTable # EmptyMap
    /\ last.before # <<>>

----------------------------------------------------------------------------
(* Properties of the ranking in fallbackPattern *)

\* the positions of the last min(n, patternLength) deltas of window c
Lookback(c) == (Len(c) - Min(Len(c), cfg.patternLength) + 1)..Len(c)

\* the number of occurrences of d in the lookback of c
FrequencyIn(c, d) == Cardinality({i \in Lookback(c) : c[i] = d})

\* the position of the latest occurrence of d in the lookback of c
LatestIn(c, d) ==
    CHOOSE i \in Lookback(c) : c[i] = d /\ \A j \in Lookback(c) : c[j] = d => j <= i

\* the position of d in the ranking
RankOf(ranked, d) == CHOOSE i \in 1..Len(ranked) : ranked[i] = d

\* C25: in the ranking of fallbackPattern more recent deltas get the higher
\* recency score: of two non-zero deltas with equal frequency in the lookback
\* window, the one whose latest occurrence is closer to the end of the window
\* ranks first.
MoreRecentDeltaRanksFirst ==
    last.op = "fallbackPattern" =>
        \A a, b \in {last.window[i] : i \in Lookback(last.window)} \ {0} :
            (/\ FrequencyIn(last.window, a) = FrequencyIn(last.window, b)
             /\ LatestIn(last.window, a) > LatestIn(last.window, b))
            => RankOf(fallbackRanking(last.window), a)
                   < RankOf(fallbackRanking(last.window), b)

----------------------------------------------------------------------------
(* buildPattern against the access log *)

\* whether logged access a carries a key value for key k
Carries(a, k) == k = "Page" \/ a.hasPC

\* the key value of logged access a for key k
KeyValueOf(a, k) == IF k = "Page" THEN computePage(a.addr) ELSE a.pc

\* the last historySize accesses of the log that carry the same k key value as
\* the newest one, oldest first
KeptAccesses(k) ==
    SelectSeq(SubSeq(log, Max(1, Len(log) - cfg.historySize + 1), Len(log)),
              LAMBDA a : /\ Carries(log[Len(log)], k)
                         /\ Carries(a, k)
                         /\ KeyValueOf(a, k) = KeyValueOf(log[Len(log)], k))

\* the signed differences between each kept access and the one kept before
\* it, newest first, truncated to patternLength
ReferencePattern(k) ==
    [i \in 1..Min(Len(KeptAccesses(k)) - 1, cfg.patternLength) |->
        ToSigned(KeptAccesses(k)[Len(KeptAccesses(k)) + 1 - i].addr)
          - ToSigned(KeptAccesses(k)[Len(KeptAccesses(k)) - i].addr)]

\* C26: for any sequence of inserts, the deltas buildPattern returns for the
\* slot just inserted and key k equal a reference computed from the access
\* log: the last historySize accesses (the new one included) that carry the
\* same k key value as the new access (for PC: only accesses that supplied a
\* PC while usePC is true), and the signed differences between each kept
\* access and the one kept before it, newest first, truncated to
\* patternLength; no kept access is skipped and no evicted access contributes.
BuildPatternMatchesAccessLog ==
    last.op = "insert" =>
        \A k \in Keys : buildPattern(Helper, last.slot, k) = ReferencePattern(k)

\* An insert that overwrote an access of the page of the new access and left
\* a page chain shorter than patternLength: the overwritten access would have
\* lengthened the chain.
ChainCutByEviction ==
    /\ last.op = "insert"
    /\ Len(log) > cfg.historySize
    /\ computePage(log[Len(log) - cfg.historySize].addr)
           = computePage(log[Len(log)].addr)
    /\ Len(buildPattern(Helper, last.slot, "Page")) < cfg.patternLength
    /\ buildPattern(Helper, last.slot, "Page") # <<>>

----------------------------------------------------------------------------
(* Properties of the page retry in calculatePrefetch *)

\* C27: within a single calculatePrefetch call the same chronological window
\* is applied to the pattern table at most once: the page-chain retry never
\* re-trains the window that was trained at the start of the call, also when
\* the PC chain is empty and the page chain is the working chain.
WindowTrainedAtMostOnce ==
    last.op = "calculatePrefetch" =>
        \A i, j \in 1..Len(last.call.trained) :
            i < j => last.call.trained[i] # last.call.trained[j]

----------------------------------------------------------------------------
(* Properties of the materialized addresses *)

\* C28: calculatePrefetch never appends the demand block address itself:
\* every emitted address differs from block_addr, including in sequential
\* mode where addresses are accumulated from the previously emitted address.
NeverEmitsDemandBlock ==
    last.op = "calculatePrefetch" =>
        \A e \in 1..Len(last.call.emitted) :
            last.call.emitted[e].addr # last.call.block_addr

----------------------------------------------------------------------------
(* Block alignment *)

\* x is an integer multiple of the block size
BlockMultiple(x) == x % cfg.blockSize = 0

\* every element of sequence q is a multiple of the block size
AllBlockMultiples(q) == \A i \in 1..Len(q) : BlockMultiple(q[i])

\* C29: every access being inserted as a block-aligned address, every address
\* calculatePrefetch appends is block-aligned: the deltas of the chains, the
\* deltas learned in the pattern table (negated reverse patterns included)
\* and the deltas predicted by the early detectors, findPatternMatch and
\* fallbackPattern are integer multiples of the block size, and so is every
\* materialized address.
EverythingBlockAligned ==
    /\ \A key \in DOMAIN patternTable :
          /\ BlockMultiple(key[1])
          /\ BlockMultiple(key[2])
          /\ \A next \in DOMAIN patternTable[key].counts : BlockMultiple(next)
    /\ last.op = "calculatePrefetch" =>
          /\ BlockMultiple(history[last.slot].addr)
          /\ AllBlockMultiples(last.call.pc_deltas)
          /\ AllBlockMultiples(last.call.page_deltas)
          /\ AllBlockMultiples(last.call.chronological)
          /\ AllBlockMultiples(last.call.predicted)
          /\ AllBlockMultiples(last.call.sorted)
          /\ \A e \in 1..Len(last.call.emitted) :
                BlockMultiple(last.call.emitted[e].addr)
          /\ \A a \in 1..Len(addresses) :
                a > Len(last.before) => BlockMultiple(addresses[a].addr)

\* A call for a byte address inside a block whose predictions came from the
\* pattern table, which holds a negated reverse pattern, and that appended
\* addresses.
UnalignedAccessMatchedAndEmitted ==
    /\ last.op = "calculatePrefetch"
    /\ ~BlockMultiple(log[Len(log)].byte)
    /\ last.call.path = "match"
    /\ last.call.emitted # <<>>
    /\ \E key \in DOMAIN patternTable : key[1] < 0

====
